---- MODULE Spec2Model ----
(***************************************************************************)
(* A model of the market-data pipeline of trader857/binance:               *)
(*   - MMapBuffer, the single-producer/single-consumer byte ring           *)
(*     (src/mmap_buffer.cpp);                                              *)
(*   - BinanceOrderBook, the snapshot/diff order book keeper               *)
(*     (src/binance_orderbook_w1.cpp);                                     *)
(*   - IcebergDetector (src/iceberg_detector.cpp);                         *)
(*   - LiquidityTracker, its trade buckets and its order book path         *)
(*     (src/liquidity_tracker.cpp, src/liquidity_tracker_dual_mode.cpp);   *)
(*   - the feed client's callback, the ring consumer and the three         *)
(*     consumer queues (src/binance_connector.cpp,                         *)
(*     src/ring_buffer_consumer.cpp);                                      *)
(*   - the threads of main and its shutdown (src/main.cpp);                *)
(*   - Serialization (src/serialization.cpp).                              *)
(* Each component has its own specification (SpecRing, SpecBook, SpecTick, *)
(* SpecStop, SpecMalformed, SpecMetrics, SpecIceberg, SpecTrades,          *)
(* SpecFlow, SpecDeepFlow, SpecFeed, SpecDispatch, SpecMain, SpecCodec);   *)
(* the variables of the other components stay at their idle values.        *)
(***************************************************************************)
EXTENDS Integers, Sequences, FiniteSets, TLC

VARIABLES
    \* ---- MMapBuffer (src/mmap_buffer.hpp:26-31) ----
    capacity_,      \* size_t capacity_
    buffer_,        \* uint8_t* buffer_ : index 0..capacity_-1 -> byte
    head_,          \* std::atomic<size_t> head_
    tail_,          \* std::atomic<size_t> tail_
    read_only_,     \* bool read_only_
    \* producer thread inside MMapBuffer::write
    w_pc, w_head, w_tail, w_data, w_to_write, w_first_chunk, w_i, w_ret,
    \* consumer thread inside MMapBuffer::read
    r_pc, r_head, r_tail, r_max_len, r_to_read, r_first_chunk, r_i, r_out, r_ret,
    \* history: bytes accepted by completed writes, bytes returned by completed reads
    h_accepted, h_returned

ringVars == <<capacity_, buffer_, head_, tail_, read_only_,
              w_pc, w_head, w_tail, w_data, w_to_write, w_first_chunk, w_i, w_ret,
              r_pc, r_head, r_tail, r_max_len, r_to_read, r_first_chunk, r_i, r_out, r_ret,
              h_accepted, h_returned>>

VARIABLES
    \* ---- BinanceOrderBook (src/binance_orderbook_w1.cpp:33-247) ----
    bids,               \* std::map<double, pair<double,string>> bids : price -> quantity
    asks,               \* std::map<double, pair<double,string>> asks : price -> quantity
    last_update_id,     \* std::atomic<uint64_t> last_update_id
    tick_size,          \* double tick_size
    orderbook_mutex,    \* std::mutex orderbook_mutex : "free" or the thread that holds it
    auto_print_enabled, \* bool auto_print_enabled
    is_running,         \* std::atomic<bool> is_running
    pc,                 \* where each of the threads main, ws, api stands
    ws_msg,             \* the depth update process_ws_update is working on
    current_last_id,    \* its local current_last_id (line 427)
    snap_msg,           \* per thread: the response fetch_api_snapshot received (readBuffer)
    sweep_best,         \* per thread: the local best_bid of print_orderbook (line 620)
    \* history
    h_prev_u,           \* last_update_id of the last applied diff, 0 after a snapshot
    h_resync,           \* id of the snapshot installed by a gap-triggered fetch, while the
                        \* next diff bridging it has not been processed; else 0
    h_last_op           \* the last mutation of the book: "none", "snapshot" (into an
                        \* empty book), "snapshot_replace", "diff", "resync_diff"
                        \* (the diff bridged a gap-triggered snapshot), "tick"

bookVars == <<bids, asks, last_update_id, tick_size, orderbook_mutex, auto_print_enabled,
              is_running, pc, ws_msg, current_last_id, snap_msg, sweep_best,
              h_prev_u, h_resync, h_last_op>>

VARIABLES
    \* ---- IcebergDetector (src/IcebergDetector.hpp:10-25) ----
    book_state_,        \* book_state_["BTCUSDT"] : price -> IcebergLevelState
    \* history
    h_obs,              \* price -> the quantities observed at it, in order
    h_emitted           \* price -> the number of emit_iceberg_event calls for it

iceVars == <<book_state_, h_obs, h_emitted>>

VARIABLES
    \* ---- LiquidityTracker (src/liquidity_tracker.hpp:63-91) ----
    lt_source,              \* which implementation file is built: "liquidity_tracker"
                            \* or "liquidity_tracker_dual_mode"
    buy_accum_usd_,         \* double buy_accum_usd_
    sell_accum_usd_,        \* double sell_accum_usd_
    buy_bucket_buyflow_,    \* double buy_bucket_buyflow_
    buy_bucket_sellflow_,   \* double buy_bucket_sellflow_
    sell_bucket_sellflow_,  \* double sell_bucket_sellflow_
    sell_bucket_buyflow_,   \* double sell_bucket_buyflow_
    buy_start_ts_ns_,       \* uint64_t buy_start_ts_ns_
    sell_start_ts_ns_,      \* uint64_t sell_start_ts_ns_
    \* history
    h_trades,               \* the trades given to onTrade, in order
    h_closures              \* the calls of buy_bucket_cb_ / sell_bucket_cb_, in order:
                            \* [is_buy, duration_ns, bucket_size, trade (its index)]

tradeVars == <<lt_source, buy_accum_usd_, sell_accum_usd_, buy_bucket_buyflow_,
               buy_bucket_sellflow_, sell_bucket_sellflow_, sell_bucket_buyflow_,
               buy_start_ts_ns_, sell_start_ts_ns_, h_trades, h_closures>>

VARIABLES
    \* ---- LiquidityTracker, order book side (src/liquidity_tracker.hpp:72-91,
    \*      src/liquidity_tracker_dual_mode.cpp:45-55) ----
    last_bids_volume_,      \* std::map<double, double> last_bids_volume_
    last_asks_volume_,      \* std::map<double, double> last_asks_volume_
    cancel_buy_,            \* cancel_buy_accum_usd_, cancel_buy_bucket_total_,
                            \* cancel_buy_start_ts_ns_ as [accum, total, start_ts]
    cancel_sell_,           \* the same for cancel_sell_*
    order_buy_,             \* order_buy_accum_usd_, order_buy_start_ts_ns_ as [accum, start_ts]
    order_sell_,            \* the same for order_sell_*
    \* history
    h_updates,              \* the number of onOrderBookUpdate calls
    h_prev_bids,            \* prev_bids of the last call
    h_prev_asks,            \* prev_asks of the last call
    h_credits,              \* the processCancelVolumeInternal calls of the last
                            \* onOrderBookUpdate, in order: [is_buy, price, cancel_volume]
    h_cancel_closures,      \* the cancel_buy_cb_ / cancel_sell_cb_ calls so far:
                            \* [is_buy, duration_ns]
    h_order_closures,       \* the order_flow_buy_cb_ / order_flow_sell_cb_ calls so
                            \* far: [is_buy, duration_ns, bucket_size, ratio, update]
    h_changes,              \* the liquidity_change_cb_ calls of the last
                            \* onOrderBookUpdate, in order: LiquidityChange values
    h_last_ts               \* timestamp_ns of the last onOrderBookUpdate

flowVars == <<last_bids_volume_, last_asks_volume_, cancel_buy_, cancel_sell_,
              order_buy_, order_sell_, h_updates, h_prev_bids, h_prev_asks,
              h_credits, h_cancel_closures, h_order_closures, h_changes, h_last_ts>>

ltVars == <<tradeVars, flowVars>>

VARIABLES
    \* ---- feed client, dispatcher and the consumer queues
    \*      (src/binance_connector.cpp, src/ring_buffer_consumer.cpp,
    \*       src/main.cpp:17-18, src/globals.cpp:7) ----
    mmap_buffer,        \* static MMapBuffer mmap_buffer(4096): the bytes in it
    buffer,             \* MMapBuffer buffer(4096, false) of consume_ring_buffer:
                        \* the bytes between tail_ and head_, oldest first
    trade_queue,        \* TSQueue<TradeMessageBinary> trade_queue
    liquidity_queue,    \* TSQueue<OrderBookUpdate> liquidity_queue
    iceberg_queue,      \* TSQueue<OrderBookUpdate> iceberg_queue
    d_pc,               \* consume_ring_buffer: "header" before the header read,
                        \* "body" between the header read and the body read
    d_msg_type,         \* MessageType msg_type
    d_msg_length,       \* uint32_t msg_length
    p_pending,          \* the bytes of the frame being written that are not yet in the ring
    \* history
    h_parsed,           \* the messages callback_ws parsed, in order
    h_frames,           \* the messages whose frames were written to the ring, in order
    h_headers,          \* the 5-byte groups the dispatcher interpreted as headers
    h_reads,            \* the frames the dispatcher read completely, header and body
    h_pushes            \* the pushes: [queue, item, by, frame], in order

dispVars == <<mmap_buffer, buffer, trade_queue, liquidity_queue, iceberg_queue,
              d_pc, d_msg_type, d_msg_length, p_pending,
              h_parsed, h_frames, h_headers, h_reads, h_pushes>>

\* what a step of each component leaves alone
VARIABLES
    \* ---- main and its four worker threads (src/main.cpp:20-127,
    \*      src/binance_connector.cpp:87-148) ----
    main_pc,            \* where main is
    ws_pc,              \* where ws_thread is, inside connector.start()
    consumer_pc,        \* where consumer_thread is, inside consume_ring_buffer
    iceberg_pc,         \* where iceberg_thread is
    liquidity_pc,       \* where liquidity_thread is
    running,            \* std::atomic<bool> BinanceConnector::running
    stop_flag,          \* std::atomic<bool> stop_flag
    closed,             \* queue name -> whether the queue is closed
    update_opt,         \* iceberg_thread's update_opt / liquidity_thread's
    trade_opt,          \* update_opt and trade_opt: thread -> popped item
    \* history
    h_processed         \* queue name -> the items its consumer processed, in order

mainVars == <<main_pc, ws_pc, consumer_pc, iceberg_pc, liquidity_pc, running,
              stop_flag, closed, update_opt, trade_opt, h_processed>>

VARIABLES
    \* ---- BinanceOrderBook, further state (src/binance_orderbook_w1.cpp) ----
    joined,             \* the threads among ws_thread, api_thread that were joined
    h_malformed,        \* history: the number of malformed messages processed
    level_copy,         \* calculate_all_metrics: ask_copy, bid_copy of each thread
    cached_metrics      \* OrderBookMetrics cached_metrics

metricVars == <<level_copy, cached_metrics>>

auxVars == <<joined, h_malformed, metricVars>>

VARIABLES
    \* ---- Serialization (src/serialization.cpp:50-213) ----
    codec_pc,       \* where the round trip of codec_msg stands
    codec_msg,      \* the TradeMessageBinary or OrderBookUpdate handed to serialize_*
    codec_data,     \* the std::vector<uint8_t> serialize_* returned
    codec_out,      \* what deserialize_* returned
    codec_read      \* the cells of codec_data deserialize_* has read, counted
                    \* from the first: Len(codec_data) + 1 is a read beyond it

codecVars == <<codec_pc, codec_msg, codec_data, codec_out, codec_read>>

nonRingVars == <<bookVars, iceVars, ltVars, dispVars, mainVars, auxVars, codecVars>>

nonBookVars == <<ringVars, iceVars, ltVars, dispVars, mainVars, auxVars, codecVars>>

nonIceVars == <<ringVars, bookVars, ltVars, dispVars, mainVars, auxVars, codecVars>>

nonLtVars == <<ringVars, bookVars, iceVars, dispVars, mainVars, auxVars, codecVars>>

nonDispVars == <<ringVars, bookVars, iceVars, ltVars, mainVars, auxVars, codecVars>>

nonMainVars == <<ringVars, bookVars, iceVars, ltVars, auxVars, codecVars>>

nonBookAuxVars == <<ringVars, iceVars, ltVars, dispVars, mainVars, codecVars>>

nonCodecVars == <<ringVars, bookVars, iceVars, ltVars, dispVars, mainVars, auxVars>>

vars == <<ringVars, bookVars, iceVars, ltVars, dispVars, mainVars, auxVars, codecVars>>

\* ------------------------------------------------------------------------
\* Bounds of the ring model
\* ------------------------------------------------------------------------
MaxCapacity == 3    \* ring capacities 1..MaxCapacity are explored
MaxLen == 3         \* longest write / read request
MaxBytes == 4       \* a write starts only while fewer bytes than this were accepted

Uninit == 0         \* content of a ring cell never written (new uint8_t[capacity_])

Min(a, b) == IF a <= b THEN a ELSE b

SubSeqTo(s, n) == [i \in 1..n |-> s[i]]

IsPrefix(s, t) == Len(s) <= Len(t) /\ \A i \in 1..Len(s) : s[i] = t[i]

\* ------------------------------------------------------------------------
\* MMapBuffer::write  (src/mmap_buffer.cpp:21-43)
\* ------------------------------------------------------------------------
WriteSpaceNoModulo(head, tail) == tail + capacity_ - head - 1

\* size_t space = (tail + capacity_ - head - 1) % capacity_;
WriteSpace(head, tail) == (tail + capacity_ - head - 1) % capacity_

\* std::min(to_write, capacity_ - (head % capacity_))
FirstChunk(n, pos) == Min(n, capacity_ - (pos % capacity_))

\* the ring cell the i-th byte (0-based) of a copy of two memcpys touches
ChunkCell(pos, first_chunk, i) ==
    IF i < first_chunk THEN (pos % capacity_) + i ELSE i - first_chunk

\* the data a producer offers: fresh, pairwise distinct byte values
FreshData(len) == [i \in 1..len |-> Len(h_accepted) + i]

\* if (read_only_) return 0;
WriteReadOnly ==
    /\ w_pc = "idle"
    /\ read_only_
    /\ \E len \in 0..MaxLen :
         /\ w_data' = FreshData(len)
         /\ w_ret' = 0
    /\ w_pc' = "idle"
    /\ UNCHANGED <<capacity_, buffer_, head_, tail_, read_only_, w_head, w_tail,
                   w_to_write, w_first_chunk, w_i,
                   r_pc, r_head, r_tail, r_max_len, r_to_read, r_first_chunk, r_i,
                   r_out, r_ret, h_accepted, h_returned>>
    /\ UNCHANGED nonRingVars

\* size_t head = head_.load(std::memory_order_relaxed);
WriteLoadHead ==
    /\ w_pc = "idle"
    /\ ~read_only_
    /\ Len(h_accepted) < MaxBytes
    /\ \E len \in 0..MaxLen : w_data' = FreshData(len)
    /\ w_head' = head_
    /\ w_pc' = "load_tail"
    /\ UNCHANGED <<capacity_, buffer_, head_, tail_, read_only_, w_tail,
                   w_to_write, w_first_chunk, w_i, w_ret,
                   r_pc, r_head, r_tail, r_max_len, r_to_read, r_first_chunk, r_i,
                   r_out, r_ret, h_accepted, h_returned>>
    /\ UNCHANGED nonRingVars

\* size_t tail = tail_.load(acquire); space, to_write, first_chunk
WriteLoadTail ==
    /\ w_pc = "load_tail"
    /\ w_tail' = tail_
    /\ LET to_write == Min(Len(w_data), WriteSpace(w_head, tail_))
       IN  /\ w_to_write' = to_write
           /\ w_first_chunk' = FirstChunk(to_write, w_head)
    /\ w_i' = 0
    /\ w_pc' = "copy"
    /\ UNCHANGED <<capacity_, buffer_, head_, tail_, read_only_, w_head, w_data, w_ret,
                   r_pc, r_head, r_tail, r_max_len, r_to_read, r_first_chunk, r_i,
                   r_out, r_ret, h_accepted, h_returned>>
    /\ UNCHANGED nonRingVars

\* one byte of memcpy(buffer_ + head % capacity_, data, first_chunk) or of
\* memcpy(buffer_, data + first_chunk, second_chunk)
WriteCopyByte ==
    /\ w_pc = "copy"
    /\ w_i < w_to_write
    /\ buffer_' = [buffer_ EXCEPT ![ChunkCell(w_head, w_first_chunk, w_i)] = w_data[w_i + 1]]
    /\ w_i' = w_i + 1
    /\ UNCHANGED <<capacity_, head_, tail_, read_only_, w_pc, w_head, w_tail, w_data,
                   w_to_write, w_first_chunk, w_ret,
                   r_pc, r_head, r_tail, r_max_len, r_to_read, r_first_chunk, r_i,
                   r_out, r_ret, h_accepted, h_returned>>
    /\ UNCHANGED nonRingVars

\* head_.store((head + to_write) % capacity_, release); return to_write;
WriteStoreHead ==
    /\ w_pc = "copy"
    /\ w_i = w_to_write
    /\ head_' = (w_head + w_to_write) % capacity_
    /\ w_ret' = w_to_write
    /\ h_accepted' = h_accepted \o SubSeqTo(w_data, w_to_write)
    /\ w_pc' = "idle"
    /\ UNCHANGED <<capacity_, buffer_, tail_, read_only_, w_head, w_tail, w_data,
                   w_to_write, w_first_chunk, w_i,
                   r_pc, r_head, r_tail, r_max_len, r_to_read, r_first_chunk, r_i,
                   r_out, r_ret, h_returned>>
    /\ UNCHANGED nonRingVars

\* ------------------------------------------------------------------------
\* MMapBuffer::read  (src/mmap_buffer.cpp:45-62)
\* ------------------------------------------------------------------------
ReadAvailableNoModulo(head, tail) == head + capacity_ - tail

\* size_t available = (head + capacity_ - tail) % capacity_;
ReadAvailable(head, tail) == (head + capacity_ - tail) % capacity_

\* size_t head = head_.load(std::memory_order_acquire);
ReadLoadHead ==
    /\ r_pc = "idle"
    /\ \E max_len \in 0..MaxLen : r_max_len' = max_len
    /\ r_head' = head_
    /\ r_out' = <<>>
    /\ r_pc' = "load_tail"
    /\ UNCHANGED <<capacity_, buffer_, head_, tail_, read_only_,
                   w_pc, w_head, w_tail, w_data, w_to_write, w_first_chunk, w_i, w_ret,
                   r_tail, r_to_read, r_first_chunk, r_i, r_ret,
                   h_accepted, h_returned>>
    /\ UNCHANGED nonRingVars

\* size_t tail = tail_.load(relaxed); available, to_read, first_chunk
ReadLoadTail ==
    /\ r_pc = "load_tail"
    /\ r_tail' = tail_
    /\ LET to_read == Min(r_max_len, ReadAvailable(r_head, tail_))
       IN  /\ r_to_read' = to_read
           /\ r_first_chunk' = FirstChunk(to_read, tail_)
    /\ r_i' = 0
    /\ r_pc' = "copy"
    /\ UNCHANGED <<capacity_, buffer_, head_, tail_, read_only_,
                   w_pc, w_head, w_tail, w_data, w_to_write, w_first_chunk, w_i, w_ret,
                   r_head, r_max_len, r_out, r_ret, h_accepted, h_returned>>
    /\ UNCHANGED nonRingVars

\* one byte of memcpy(out, buffer_ + tail % capacity_, first_chunk) or of
\* memcpy(out + first_chunk, buffer_, second_chunk)
ReadCopyByte ==
    /\ r_pc = "copy"
    /\ r_i < r_to_read
    /\ r_out' = Append(r_out, buffer_[ChunkCell(r_tail, r_first_chunk, r_i)])
    /\ r_i' = r_i + 1
    /\ UNCHANGED <<capacity_, buffer_, head_, tail_, read_only_,
                   w_pc, w_head, w_tail, w_data, w_to_write, w_first_chunk, w_i, w_ret,
                   r_pc, r_head, r_tail, r_max_len, r_to_read, r_first_chunk, r_ret,
                   h_accepted, h_returned>>
    /\ UNCHANGED nonRingVars

\* tail_.store((tail + to_read) % capacity_, release); return to_read;
ReadStoreTail ==
    /\ r_pc = "copy"
    /\ r_i = r_to_read
    /\ tail_' = (r_tail + r_to_read) % capacity_
    /\ r_ret' = r_to_read
    /\ h_returned' = h_returned \o r_out
    /\ r_out' = <<>>
    /\ r_pc' = "idle"
    /\ UNCHANGED <<capacity_, buffer_, head_, read_only_,
                   w_pc, w_head, w_tail, w_data, w_to_write, w_first_chunk, w_i, w_ret,
                   r_head, r_tail, r_max_len, r_to_read, r_first_chunk, r_i,
                   h_accepted>>
    /\ UNCHANGED nonRingVars

\* MMapBuffer::MMapBuffer(size_t capacity, bool read_only)  (src/mmap_buffer.cpp:5-15)
RingInit ==
    /\ capacity_ \in 1..MaxCapacity
    /\ buffer_ = [c \in 0..(capacity_ - 1) |-> Uninit]
    /\ head_ = 0
    /\ tail_ = 0
    /\ read_only_ \in BOOLEAN
    /\ w_pc = "idle" /\ w_head = 0 /\ w_tail = 0 /\ w_data = <<>>
    /\ w_to_write = 0 /\ w_first_chunk = 0 /\ w_i = 0 /\ w_ret = 0
    /\ r_pc = "idle" /\ r_head = 0 /\ r_tail = 0 /\ r_max_len = 0
    /\ r_to_read = 0 /\ r_first_chunk = 0 /\ r_i = 0 /\ r_out = <<>> /\ r_ret = 0
    /\ h_accepted = <<>>
    /\ h_returned = <<>>

WriteStep == WriteReadOnly \/ WriteLoadHead \/ WriteLoadTail \/ WriteCopyByte \/ WriteStoreHead

ReadStep == ReadLoadHead \/ ReadLoadTail \/ ReadCopyByte \/ ReadStoreTail

\* ========================================================================
\* BinanceOrderBook  (src/binance_orderbook_w1.cpp)
\*
\* Prices are integers in units of 0.001 (10.00 is 10000), quantities are
\* integers in units of 0.5 (1.5 is 3).  The source tag of a level ("API",
\* "WS") is diagnostic only and is left out.  Binary floating point error
\* of round(price / tick) * tick is not modelled.
\* ========================================================================
MaxIdSpan == 3      \* update ids 100..100+MaxIdSpan are explored

MaxMalformed == 1   \* at most this many malformed messages arrive in a run

MaxField == 3       \* ids and flag bytes of the serialized messages are 0..MaxField

Threads == {"main", "ws", "api"}

Ids == 100..(100 + MaxIdSpan)

\* std::vector<double> available_tick_sizes = {0.001, 0.01, 0.1, 1.0, 10.0, 100.0};
available_tick_sizes == {1, 10, 100, 1000, 10000, 100000}

\* the tick sizes the CLI user types: 0.01, 0.1 and the rejected 0.05
TickInputs == {10, 100, 50}

\* Snapshot bodies: Scenario A's, and one with a zero quantity, a stale low
\* bid and two asks that round to one price at tick 0.01
SnapshotBodies ==
    { [bids |-> << <<10000, 2>>, <<9990, 4>> >>, asks |-> << <<10010, 3>> >>],
      [bids |-> << <<10000, 2>>, <<9000, 2>> >>,
       asks |-> << <<10020, 0>>, <<10012, 4>>, <<10008, 2>> >>] }

\* the REST endpoint answers with the book as of every second update id
SnapshotIds == { id \in Ids : (id - 100) % 2 = 0 }

Snapshots ==
    { [lastUpdateId |-> id, bids |-> b.bids, asks |-> b.asks] :
        id \in SnapshotIds, b \in SnapshotBodies }

\* every tick size of available_tick_sizes, and the rejected 0.05
AllTickInputs == available_tick_sizes \cup {50}

\* Snapshot bodies for re-aggregation: Scenario F's bids {10.00, 10.01, 10.02}
\* with asks that split between 10.00 and 10.10 at tick 0.1, and a book
\* whose levels lie on both sides of a multiple of 0.1 and of 1
TickSnapshotBodies ==
    { [bids |-> << <<10000, 2>>, <<10010, 4>>, <<10020, 6>> >>,
       asks |-> << <<10030, 3>>, <<10040, 1>>, <<10060, 5>> >>],
      [bids |-> << <<9940, 1>>, <<9960, 3>>, <<9400, 2>> >>,
       asks |-> << <<10510, 2>>, <<10490, 4>>, <<10520, 0>> >>] }

TickSnapshots ==
    { [lastUpdateId |-> id, bids |-> b.bids, asks |-> b.asks] :
        id \in SnapshotIds, b \in TickSnapshotBodies }

\* Diff bodies: Scenario A's, and one with a bid that rounds onto the best
\* ask and two asks that round to one price (a set followed by a delete)
DiffBodies ==
    { [bids |-> << <<9990, 0>> >>, asks |-> << <<10020, 6>> >>],
      [bids |-> << <<10006, 2>> >>, asks |-> << <<10022, 4>>, <<10018, 0>> >>] }

Diffs ==
    { [U |-> a, u |-> b, bids |-> d.bids, asks |-> d.asks] :
        a \in Ids, b \in Ids, d \in DiffBodies }

WellFormedDiffs == { d \in Diffs : d.U <= d.u }

\* depth updates without the field "U": root["U"].asUInt64() is 0 (line 424)
DiffsWithoutU ==
    { [U |-> 0, u |-> b, bids |-> d.bids, asks |-> d.asks] : b \in Ids, d \in DiffBodies }

NoMsg == [U |-> 0, u |-> 0, bids |-> << >>, asks |-> << >>]

NoSnap == [lastUpdateId |-> 0, bids |-> << >>, asks |-> << >>]

EmptyMap == [p \in {} |-> 0]

MapSet(m, p, q) == [x \in (DOMAIN m) \cup {p} |-> IF x = p THEN q ELSE m[x]]

MapErase(m, p) == [x \in (DOMAIN m) \ {p} |-> m[x]]

SetMax(S) == CHOOSE x \in S : \A y \in S : y <= x

SetMin(S) == CHOOSE x \in S : \A y \in S : x <= y

\* std::round(price / tick) * tick, half away from zero, for price >= 0
RoundTo(price, tick) == ((2 * price + tick) \div (2 * tick)) * tick

\* double round_to_tick_size(double price)  (lines 250-253)
round_to_tick_size(price) == RoundTo(price, tick_size)

\* if (quantity > 0) side[price] = {quantity, "API"};   (lines 344-358)
RECURSIVE StoreLevels(_, _)
StoreLevels(m, levels) ==
    IF levels = << >> THEN m
    ELSE LET price == round_to_tick_size(Head(levels)[1])
             quantity == Head(levels)[2]
         IN  StoreLevels(IF quantity > 0 THEN MapSet(m, price, quantity) ELSE m,
                         Tail(levels))

\* faulty variant: the old levels are not cleared
InstallSideNoClear(old, levels) == StoreLevels(old, levels)

\* faulty variant: the quantity test is dropped, zero quantities are stored
RECURSIVE StoreLevelsKeepZero(_, _)
StoreLevelsKeepZero(m, levels) ==
    IF levels = << >> THEN m
    ELSE StoreLevelsKeepZero(MapSet(m, round_to_tick_size(Head(levels)[1]),
                                    Head(levels)[2]),
                             Tail(levels))

InstallSideKeepZero(old, levels) == StoreLevelsKeepZero(EmptyMap, levels)

\* side.clear(); then the loop over the snapshot's levels  (lines 339-358)
InstallSide(old, levels) == StoreLevels(EmptyMap, levels)

\* if (quantity > 0) side[price] = {quantity, "WS"}; else side.erase(price);
\* (lines 441-465)
RECURSIVE ApplyLevels(_, _)
ApplyLevels(m, levels) ==
    IF levels = << >> THEN m
    ELSE LET price == round_to_tick_size(Head(levels)[1])
             quantity == Head(levels)[2]
         IN  ApplyLevels(IF quantity > 0 THEN MapSet(m, price, quantity)
                                          ELSE MapErase(m, price),
                         Tail(levels))

ApplyDiffSideReplace(old, levels) == ApplyLevels(EmptyMap, levels)

ApplyDiffSide(old, levels) == ApplyLevels(old, levels)

\* the re-aggregation loop of set_tick_size, in std::map (ascending) order
\* (lines 828-848)
RECURSIVE ReaggregateFrom(_, _, _, _)
ReaggregateFrom(m, keys, acc, tick) ==
    IF keys = {} THEN acc
    ELSE LET price == SetMin(keys)
             rounded_price == RoundTo(price, tick)
         IN  ReaggregateFrom(m, keys \ {price},
                 IF rounded_price \in DOMAIN acc
                 THEN MapSet(acc, rounded_price, acc[rounded_price] + m[price])
                 ELSE MapSet(acc, rounded_price, m[price]),
                 tick)

\* faulty variant: a level that rounds onto an existing new level replaces its
\* quantity
ReaggregateOverwrite(m, tick) ==
    [q \in { RoundTo(p, tick) : p \in DOMAIN m } |->
        m[SetMax({ p \in DOMAIN m : RoundTo(p, tick) = q })]]

Reaggregate(m, tick) == ReaggregateFrom(m, DOMAIN m, EmptyMap, tick)

\* best_bid = bids.rbegin()->first, 0 when empty  (lines 620-624)
BestBid(m) == IF DOMAIN m = {} THEN 0 ELSE SetMax(DOMAIN m)

\* best_ask = asks.begin()->first, 0 when empty  (lines 626-628)
BestAsk(m) == IF DOMAIN m = {} THEN 0 ELSE SetMin(DOMAIN m)

\* if (best_bid > 0) erase every bid with price < best_bid * 0.95  (lines 631-640)
SweepBelow(m, best_bid) ==
    IF best_bid > 0
    THEN [p \in {x \in DOMAIN m : ~(100 * x < 95 * best_bid)} |-> m[p]]
    ELSE m

\* if (update_id <= current_last_id) return;   (line 429)
IsOldUpdate(update_id, cur) == update_id <= cur

IsApplicableOffByOne(first_update_id, cur) == first_update_id <= cur

\* if (first_update_id <= current_last_id + 1)   (line 434)
IsApplicable(first_update_id, cur) == first_update_id <= cur + 1

\* where a thread goes when print_orderbook / fetch_api_snapshot returns
ReturnTo(t) == IF t = "main" THEN "spawn" ELSE "idle"

Bridges(d, id) == d.U <= id + 1 /\ id + 1 <= d.u

\* ---- start(): is_running = true, then the first fetch (lines 927-932) ----
Start ==
    /\ pc["main"] = "init"
    /\ is_running' = TRUE
    /\ pc' = [pc EXCEPT !["main"] = "fetch"]
    /\ UNCHANGED <<bids, asks, last_update_id, tick_size, orderbook_mutex,
                   auto_print_enabled, ws_msg, current_last_id, snap_msg, sweep_best,
                   h_prev_u, h_resync, h_last_op>>
    /\ UNCHANGED nonBookVars

\* ---- start(): the two threads are created (lines 935-1017) ----
SpawnThreads ==
    /\ pc["main"] = "spawn"
    /\ pc' = [pc EXCEPT !["main"] = "cli", !["ws"] = "idle", !["api"] = "idle"]
    /\ UNCHANGED <<bids, asks, last_update_id, tick_size, orderbook_mutex,
                   auto_print_enabled, is_running, ws_msg, current_last_id, snap_msg,
                   sweep_best, h_prev_u, h_resync, h_last_op>>
    /\ UNCHANGED nonBookVars

\* ---- fetch_api_snapshot: curl error, HTTP code != 200 (lines 302-305) ----
FetchFail(t) ==
    /\ pc[t] = "fetch"
    /\ pc' = [pc EXCEPT ![t] = ReturnTo(t)]
    /\ UNCHANGED <<bids, asks, last_update_id, tick_size, orderbook_mutex,
                   auto_print_enabled, is_running, ws_msg, current_last_id, snap_msg,
                   sweep_best, h_prev_u, h_resync, h_last_op>>
    /\ UNCHANGED nonBookVars

\* ---- fetch_api_snapshot: the response arrives (lines 295-307) ----
FetchResponse(t, s) ==
    /\ pc[t] = "fetch"
    /\ snap_msg' = [snap_msg EXCEPT ![t] = s]
    /\ pc' = [pc EXCEPT ![t] = "install"]
    /\ UNCHANGED <<bids, asks, last_update_id, tick_size, orderbook_mutex,
                   auto_print_enabled, is_running, ws_msg, current_last_id,
                   sweep_best, h_prev_u, h_resync, h_last_op>>
    /\ UNCHANGED nonBookVars

\* ---- process_api_snapshot: the locked block (lines 330-359) ----
InstallSnapshot(t) ==
    /\ pc[t] = "install"
    /\ orderbook_mutex = "free"
    /\ last_update_id' = snap_msg[t].lastUpdateId
    /\ bids' = InstallSide(bids, snap_msg[t].bids)
    /\ asks' = InstallSide(asks, snap_msg[t].asks)
    /\ snap_msg' = [snap_msg EXCEPT ![t] = NoSnap]
    /\ h_prev_u' = 0
    /\ h_resync' = IF t = "ws" THEN snap_msg[t].lastUpdateId ELSE h_resync
    /\ h_last_op' = IF (DOMAIN bids) \cup (DOMAIN asks) # {}
                    THEN "snapshot_replace" ELSE "snapshot"
    /\ pc' = [pc EXCEPT ![t] = "print"]
    /\ UNCHANGED <<tick_size, orderbook_mutex, auto_print_enabled, is_running, ws_msg,
                   current_last_id, sweep_best>>
    /\ UNCHANGED nonBookVars

\* ---- print_orderbook: calculate_all_metrics() under the mutex, the
\*      auto_print_enabled test, the unlocked read of best_bid (lines 610-628) ----
PrintOrderbook(t) ==
    /\ pc[t] = "print"
    /\ orderbook_mutex = "free"
    /\ IF auto_print_enabled
       THEN /\ sweep_best' = [sweep_best EXCEPT ![t] = BestBid(bids)]
            /\ pc' = [pc EXCEPT ![t] = "sweep"]
       ELSE /\ pc' = [pc EXCEPT ![t] = ReturnTo(t)]
            /\ UNCHANGED sweep_best
    /\ UNCHANGED <<bids, asks, last_update_id, tick_size, orderbook_mutex,
                   auto_print_enabled, is_running, ws_msg, current_last_id, snap_msg,
                   h_prev_u, h_resync, h_last_op>>
    /\ UNCHANGED nonBookVars

\* ---- print_orderbook: the unlocked erase loop (lines 631-640) ----
SweepStaleBids(t) ==
    /\ pc[t] = "sweep"
    /\ bids' = SweepBelow(bids, sweep_best[t])
    /\ sweep_best' = [sweep_best EXCEPT ![t] = 0]
    /\ pc' = [pc EXCEPT ![t] = ReturnTo(t)]
    /\ UNCHANGED <<asks, last_update_id, tick_size, orderbook_mutex,
                   auto_print_enabled, is_running, ws_msg, current_last_id, snap_msg,
                   h_prev_u, h_resync, h_last_op>>
    /\ UNCHANGED nonBookVars

\* ---- process_ws_update: parse, load last_update_id (lines 402-427) ----
WsReceive(d) ==
    /\ pc["ws"] = "idle"
    /\ is_running
    /\ ws_msg' = d
    /\ current_last_id' = last_update_id
    /\ pc' = [pc EXCEPT !["ws"] = "check"]
    /\ UNCHANGED <<bids, asks, last_update_id, tick_size, orderbook_mutex,
                   auto_print_enabled, is_running, snap_msg, sweep_best,
                   h_prev_u, h_resync, h_last_op>>
    /\ UNCHANGED nonBookVars

\* ---- process_ws_update: an old update is skipped (lines 429-432) ----
WsSkipOld ==
    /\ pc["ws"] = "check"
    /\ IsOldUpdate(ws_msg.u, current_last_id)
    /\ pc' = [pc EXCEPT !["ws"] = "idle"]
    /\ ws_msg' = NoMsg
    /\ current_last_id' = 0
    /\ h_resync' = IF h_resync # 0 /\ Bridges(ws_msg, h_resync) THEN 0 ELSE h_resync
    /\ UNCHANGED <<bids, asks, last_update_id, tick_size, orderbook_mutex,
                   auto_print_enabled, is_running, snap_msg, sweep_best,
                   h_prev_u, h_last_op>>
    /\ UNCHANGED nonBookVars

\* ---- process_ws_update: the sequence check passes (line 434) ----
WsAccept ==
    /\ pc["ws"] = "check"
    /\ ~IsOldUpdate(ws_msg.u, current_last_id)
    /\ IsApplicable(ws_msg.U, current_last_id)
    /\ pc' = [pc EXCEPT !["ws"] = "apply"]
    /\ UNCHANGED <<bids, asks, last_update_id, tick_size, orderbook_mutex,
                   auto_print_enabled, is_running, ws_msg, current_last_id, snap_msg,
                   sweep_best, h_prev_u, h_resync, h_last_op>>
    /\ UNCHANGED nonBookVars

\* ---- process_ws_update: out of sync, fetch_api_snapshot() (lines 473-477) ----
WsGap ==
    /\ pc["ws"] = "check"
    /\ ~IsOldUpdate(ws_msg.u, current_last_id)
    /\ ~IsApplicable(ws_msg.U, current_last_id)
    /\ pc' = [pc EXCEPT !["ws"] = "fetch"]
    /\ ws_msg' = NoMsg
    /\ current_last_id' = 0
    /\ h_resync' = 0
    /\ UNCHANGED <<bids, asks, last_update_id, tick_size, orderbook_mutex,
                   auto_print_enabled, is_running, snap_msg, sweep_best,
                   h_prev_u, h_last_op>>
    /\ UNCHANGED nonBookVars

\* ---- process_ws_update: the locked block (lines 436-469) ----
WsApply ==
    /\ pc["ws"] = "apply"
    /\ orderbook_mutex = "free"
    /\ bids' = ApplyDiffSide(bids, ws_msg.bids)
    /\ asks' = ApplyDiffSide(asks, ws_msg.asks)
    /\ last_update_id' = ws_msg.u
    /\ h_prev_u' = ws_msg.u
    /\ h_last_op' = IF h_resync # 0 /\ Bridges(ws_msg, h_resync)
                    THEN "resync_diff" ELSE "diff"
    /\ h_resync' = IF h_resync # 0 /\ Bridges(ws_msg, h_resync) THEN 0 ELSE h_resync
    /\ ws_msg' = NoMsg
    /\ current_last_id' = 0
    /\ pc' = [pc EXCEPT !["ws"] = "print"]
    /\ UNCHANGED <<tick_size, orderbook_mutex, auto_print_enabled, is_running, snap_msg,
                   sweep_best>>
    /\ UNCHANGED nonBookVars

\* ---- api_thread: the 30 s wait is over, fetch_api_snapshot() (lines 1007-1015) ----
ApiPeriodic ==
    /\ pc["api"] = "idle"
    /\ is_running
    /\ pc' = [pc EXCEPT !["api"] = "fetch"]
    /\ UNCHANGED <<bids, asks, last_update_id, tick_size, orderbook_mutex,
                   auto_print_enabled, is_running, ws_msg, current_last_id, snap_msg,
                   sweep_best, h_prev_u, h_resync, h_last_op>>
    /\ UNCHANGED nonBookVars

\* ---- set_tick_size with an allowed tick: re-aggregation under the mutex,
\*      then print_orderbook() with the mutex still held (lines 812-853) ----
SetTickSizeValid(t) ==
    /\ pc["main"] = "cli"
    /\ orderbook_mutex = "free"
    /\ t \in available_tick_sizes
    /\ tick_size' = t
    /\ bids' = Reaggregate(bids, t)
    /\ asks' = Reaggregate(asks, t)
    /\ orderbook_mutex' = "main"
    /\ h_last_op' = "tick"
    /\ pc' = [pc EXCEPT !["main"] = "relock"]
    /\ UNCHANGED <<last_update_id, auto_print_enabled, is_running, ws_msg,
                   current_last_id, snap_msg, sweep_best, h_prev_u, h_resync>>
    /\ UNCHANGED nonBookVars

\* ---- set_tick_size with a tick that is not allowed (lines 854-860) ----
SetTickSizeInvalid(t) ==
    /\ pc["main"] = "cli"
    /\ orderbook_mutex = "free"
    /\ t \notin available_tick_sizes
    /\ UNCHANGED <<bids, asks, last_update_id, tick_size, orderbook_mutex,
                   auto_print_enabled, is_running, pc, ws_msg, current_last_id, snap_msg,
                   sweep_best, h_prev_u, h_resync, h_last_op>>
    /\ UNCHANGED nonBookVars

\* ---- calculate_all_metrics locks orderbook_mutex, which set_tick_size
\*      holds: undefined behaviour.  The thread either blocks for ever (no
\*      step: pc stays "relock" with the mutex held) or lock() throws
\*      std::system_error, which unwinds to main's catch: the lock_guard
\*      releases the mutex and ~BinanceOrderBook calls stop()
\*      (lines 130-131, 793-795, 1179-1182) ----
RelockThrows ==
    /\ pc["main"] = "relock"
    /\ orderbook_mutex' = "free"
    /\ is_running' = FALSE
    /\ pc' = [pc EXCEPT !["main"] = "exited"]
    /\ UNCHANGED <<bids, asks, last_update_id, tick_size, auto_print_enabled, ws_msg,
                   current_last_id, snap_msg, sweep_best, h_prev_u, h_resync, h_last_op>>
    /\ UNCHANGED nonBookVars

\* ---- CLI command p: enable_auto_print / disable_auto_print (lines 757-758) ----
ToggleAutoPrint ==
    /\ pc["main"] = "cli"
    /\ auto_print_enabled' = ~auto_print_enabled
    /\ UNCHANGED <<bids, asks, last_update_id, tick_size, orderbook_mutex,
                   is_running, pc, ws_msg, current_last_id, snap_msg, sweep_best,
                   h_prev_u, h_resync, h_last_op>>
    /\ UNCHANGED nonBookVars

\* ---- the connection-error and connection-closed callbacks, run by
\*      lws_service in ws_thread (lines 910-918) ----
WsConnectionLost ==
    /\ pc["ws"] = "idle"
    /\ is_running
    /\ is_running' = FALSE
    /\ UNCHANGED <<bids, asks, last_update_id, tick_size, orderbook_mutex,
                   auto_print_enabled, pc, ws_msg, current_last_id, snap_msg, sweep_best,
                   h_prev_u, h_resync, h_last_op>>
    /\ UNCHANGED <<joined, h_malformed, metricVars>>
    /\ UNCHANGED nonBookAuxVars

\* ---- ws_thread: while (is_running.load()) is left, the context is
\*      destroyed, the thread function returns (lines 981, 995-1000);
\*      api_thread: while (is_running.load()) is left (lines 1007-1017) ----
ThreadReturns(t) ==
    /\ t \in {"ws", "api"}
    /\ pc[t] = "idle"
    /\ ~is_running
    /\ pc' = [pc EXCEPT ![t] = "exited"]
    /\ UNCHANGED <<bids, asks, last_update_id, tick_size, orderbook_mutex,
                   auto_print_enabled, is_running, ws_msg, current_last_id, snap_msg,
                   sweep_best, h_prev_u, h_resync, h_last_op>>
    /\ UNCHANGED <<joined, h_malformed, metricVars>>
    /\ UNCHANGED nonBookAuxVars

\* if (!is_running.load()) return;   (line 1022)
StopReturnsAtOnce(running_now) == ~running_now

\* ---- stop(), called when the command loop ends: the test of is_running,
\*      is_running = false (lines 1021-1029, 1176) ----
StopCalled ==
    /\ pc["main"] = "cli"
    /\ IF StopReturnsAtOnce(is_running)
       THEN /\ pc' = [pc EXCEPT !["main"] = "stopped"]
            /\ UNCHANGED is_running
       ELSE /\ pc' = [pc EXCEPT !["main"] = "join_ws"]
            /\ is_running' = FALSE
    /\ UNCHANGED <<bids, asks, last_update_id, tick_size, orderbook_mutex,
                   auto_print_enabled, ws_msg, current_last_id, snap_msg, sweep_best,
                   h_prev_u, h_resync, h_last_op>>
    /\ UNCHANGED <<joined, h_malformed, metricVars>>
    /\ UNCHANGED nonBookAuxVars

\* ---- stop(): ws_thread.join(), api_thread.join(), return (lines 1031-1040) ----
StopJoins ==
    /\ \E step \in { <<"join_ws", "ws", "join_api">>, <<"join_api", "api", "stopped">> } :
         /\ pc["main"] = step[1]
         /\ pc[step[2]] = "exited"
         /\ joined' = joined \cup {step[2]}
         /\ UNCHANGED <<h_malformed, metricVars>>
         /\ pc' = [pc EXCEPT !["main"] = step[3]]
    /\ UNCHANGED <<bids, asks, last_update_id, tick_size, orderbook_mutex,
                   auto_print_enabled, is_running, ws_msg, current_last_id, snap_msg,
                   sweep_best, h_prev_u, h_resync, h_last_op>>
    /\ UNCHANGED nonBookAuxVars

\* ---- calculate_all_metrics (lines 130-214) ----
\* the levels of a side in std::map (ascending price) order
RECURSIVE AscendingFrom(_, _)
AscendingFrom(m, keys) ==
    IF keys = {} THEN << >>
    ELSE LET price == SetMin(keys)
         IN  << <<price, m[price]>> >> \o AscendingFrom(m, keys \ {price})

Ascending(m) == AscendingFrom(m, DOMAIN m)

\* usd_value = price * quantity summed over the first count levels of a
\* vector (lines 171-188)
RECURSIVE VolumeOf(_, _)
VolumeOf(levels, count) ==
    IF levels = << >> \/ count = 0 THEN 0
    ELSE Head(levels)[1] * Head(levels)[2] + VolumeOf(Tail(levels), count - 1)

\* the bid vector is walked from rbegin() (line 182)
Reversed(levels) == [i \in 1..Len(levels) |-> levels[Len(levels) + 1 - i]]

NoCopy == [ask_copy |-> << >>, bid_copy |-> << >>]

\* OrderBookMetrics as constructed (lines 58-78)
NoMetrics ==
    [best_bid |-> 0, best_ask |-> 0, spread |-> 0,
     imbalance_2_levels |-> <<0, 1>>, imbalance_10_levels |-> <<0, 1>>,
     imbalance_20_levels |-> <<0, 1>>, imbalance_all_levels |-> <<0, 1>>,
     total_ask_liquidity |-> 0, total_bid_liquidity |-> 0]

\* faulty variant: ask minus bid
calc_imb_ask_minus_bid(ask, bid) ==
    IF ask + bid > 0 THEN <<ask - bid, ask + bid>> ELSE <<0, 1>>

\* auto calc_imb = [](double ask, double bid) { double total = ask + bid;
\*     return total > 0 ? (bid - ask) / total : 0.0; };   (lines 192-195)
\* the quotient as the fraction <<numerator, denominator>>
calc_imb(ask, bid) ==
    IF ask + bid > 0 THEN <<bid - ask, ask + bid>> ELSE <<0, 1>>

\* lock orderbook_mutex, best bid / ask / spread, the copy of both sides
\* (lines 131-162)
MetricsCopy(t) ==
    /\ pc[t] = "print"
    /\ orderbook_mutex = "free"
    /\ orderbook_mutex' = t
    /\ LET best_bid == IF DOMAIN bids # {} THEN BestBid(bids) ELSE cached_metrics.best_bid
           best_ask == IF DOMAIN asks # {} THEN BestAsk(asks) ELSE cached_metrics.best_ask
       IN  cached_metrics' =
               [cached_metrics EXCEPT
                   !.best_bid = best_bid,
                   !.best_ask = best_ask,
                   !.spread = IF best_bid > 0 /\ best_ask > 0
                              THEN best_ask - best_bid ELSE @]
    /\ level_copy' = [level_copy EXCEPT
                         ![t] = [ask_copy |-> Ascending(asks), bid_copy |-> Ascending(bids)]]
    /\ pc' = [pc EXCEPT ![t] = "compute"]
    /\ UNCHANGED <<bids, asks, last_update_id, tick_size, auto_print_enabled, is_running,
                   ws_msg, current_last_id, snap_msg, sweep_best, h_prev_u, h_resync,
                   h_last_op>>
    /\ UNCHANGED <<joined, h_malformed>>
    /\ UNCHANGED nonBookAuxVars

\* the sums over the copies, the cache written, return: the lock_guards are
\* destroyed (lines 164-214)
MetricsCompute(t) ==
    /\ pc[t] = "compute"
    /\ LET ask_copy == level_copy[t].ask_copy
           bid_copy == Reversed(level_copy[t].bid_copy)
           ask_volume_all == VolumeOf(ask_copy, Len(ask_copy))
           bid_volume_all == VolumeOf(bid_copy, Len(bid_copy))
       IN  cached_metrics' =
               [cached_metrics EXCEPT
                   !.imbalance_2_levels =
                       calc_imb(VolumeOf(ask_copy, 2), VolumeOf(bid_copy, 2)),
                   !.imbalance_10_levels =
                       calc_imb(VolumeOf(ask_copy, 10), VolumeOf(bid_copy, 10)),
                   !.imbalance_20_levels =
                       calc_imb(VolumeOf(ask_copy, 20), VolumeOf(bid_copy, 20)),
                   !.imbalance_all_levels = calc_imb(ask_volume_all, bid_volume_all),
                   !.total_ask_liquidity = ask_volume_all,
                   !.total_bid_liquidity = bid_volume_all]
    /\ level_copy' = [level_copy EXCEPT ![t] = NoCopy]
    /\ orderbook_mutex' = "free"
    /\ pc' = [pc EXCEPT ![t] = "printing"]
    /\ UNCHANGED <<bids, asks, last_update_id, tick_size, auto_print_enabled, is_running,
                   ws_msg, current_last_id, snap_msg, sweep_best, h_prev_u, h_resync,
                   h_last_op>>
    /\ UNCHANGED <<joined, h_malformed>>
    /\ UNCHANGED nonBookAuxVars

\* print_orderbook after calculate_all_metrics has returned: the
\* auto_print_enabled test and the read of best_bid (lines 615-628)
PrintAfterMetrics(t) ==
    /\ pc[t] = "printing"
    /\ IF auto_print_enabled
       THEN /\ sweep_best' = [sweep_best EXCEPT ![t] = BestBid(bids)]
            /\ pc' = [pc EXCEPT ![t] = "sweep"]
       ELSE /\ pc' = [pc EXCEPT ![t] = ReturnTo(t)]
            /\ UNCHANGED sweep_best
    /\ UNCHANGED <<bids, asks, last_update_id, tick_size, orderbook_mutex,
                   auto_print_enabled, is_running, ws_msg, current_last_id, snap_msg,
                   h_prev_u, h_resync, h_last_op>>
    /\ UNCHANGED nonBookVars

\* ---- a message with a level whose price or quantity is not a number:
\*      std::stod throws at that level, the handler's catch logs ----
\* the levels before position k, those the loop has stored when stod throws
Before(levels, k) == SubSeq(levels, 1, k - 1)

\* process_api_snapshot of snapshot s whose level k of the given side is not
\* a number: last_update_id stored, both maps cleared, the levels before the
\* bad one stored, no print_orderbook (lines 316-366)
InstallMalformedSnapshot(t, s, side, k) ==
    /\ pc[t] = "fetch"
    /\ orderbook_mutex = "free"
    /\ h_malformed < MaxMalformed
    /\ k \in 1..Len(s[side])
    /\ last_update_id' = s.lastUpdateId
    /\ bids' = InstallSide(bids, IF side = "bids" THEN Before(s.bids, k) ELSE s.bids)
    /\ asks' = InstallSide(asks, IF side = "bids" THEN << >> ELSE Before(s.asks, k))
    /\ h_prev_u' = 0
    /\ h_resync' = IF t = "ws" THEN s.lastUpdateId ELSE h_resync
    /\ h_last_op' = "malformed_snapshot"
    /\ h_malformed' = h_malformed + 1
    /\ pc' = [pc EXCEPT ![t] = ReturnTo(t)]
    /\ UNCHANGED <<tick_size, orderbook_mutex, auto_print_enabled, is_running, ws_msg,
                   current_last_id, snap_msg, sweep_best>>
    /\ UNCHANGED <<joined, metricVars>>
    /\ UNCHANGED nonBookAuxVars

\* process_ws_update of diff d whose level k of the given side is not a
\* number: the levels before the bad one applied, last_update_id not stored,
\* no print_orderbook (lines 402-481)
ApplyMalformedDiff(d, side, k) ==
    /\ pc["ws"] = "idle"
    /\ is_running
    /\ orderbook_mutex = "free"
    /\ h_malformed < MaxMalformed
    /\ k \in 1..Len(d[side])
    /\ ~IsOldUpdate(d.u, last_update_id)
    /\ IsApplicable(d.U, last_update_id)
    /\ bids' = ApplyDiffSide(bids, IF side = "bids" THEN Before(d.bids, k) ELSE d.bids)
    /\ asks' = ApplyDiffSide(asks, IF side = "bids" THEN << >> ELSE Before(d.asks, k))
    /\ h_last_op' = "malformed_diff"
    /\ h_malformed' = h_malformed + 1
    /\ UNCHANGED <<last_update_id, tick_size, orderbook_mutex, auto_print_enabled,
                   is_running, pc, ws_msg, current_last_id, snap_msg, sweep_best,
                   h_prev_u, h_resync>>
    /\ UNCHANGED <<joined, metricVars>>
    /\ UNCHANGED nonBookAuxVars

\* BinanceOrderBook() and the member initialisers (lines 36-38, 82, 230, 238, 241)
BookInit ==
    /\ bids = EmptyMap
    /\ asks = EmptyMap
    /\ last_update_id = 0
    /\ tick_size = 10
    /\ orderbook_mutex = "free"
    /\ auto_print_enabled = TRUE
    /\ is_running = FALSE
    /\ pc = [t \in Threads |-> IF t = "main" THEN "init" ELSE "off"]
    /\ ws_msg = NoMsg
    /\ current_last_id = 0
    /\ snap_msg = [t \in Threads |-> NoSnap]
    /\ sweep_best = [t \in Threads |-> 0]
    /\ h_prev_u = 0
    /\ h_resync = 0
    /\ h_last_op = "none"
    /\ joined = {}
    /\ h_malformed = 0
    /\ level_copy = [t \in Threads |-> NoCopy]
    /\ cached_metrics = NoMetrics

\* the ring of a run that only exercises the order book
RingIdle ==
    /\ capacity_ = 1
    /\ buffer_ = [c \in 0..0 |-> Uninit]
    /\ head_ = 0
    /\ tail_ = 0
    /\ read_only_ = FALSE
    /\ w_pc = "idle" /\ w_head = 0 /\ w_tail = 0 /\ w_data = <<>>
    /\ w_to_write = 0 /\ w_first_chunk = 0 /\ w_i = 0 /\ w_ret = 0
    /\ r_pc = "idle" /\ r_head = 0 /\ r_tail = 0 /\ r_max_len = 0
    /\ r_to_read = 0 /\ r_first_chunk = 0 /\ r_i = 0 /\ r_out = <<>> /\ r_ret = 0
    /\ h_accepted = <<>>
    /\ h_returned = <<>>

\* ========================================================================
\* IcebergDetector  (src/iceberg_detector.cpp)
\* ========================================================================
MaxObs == 6         \* at most this many levels are observed in a run

\* the observed prices: the ask 30000.00 of Scenario C and a bid below it
IcebergAskPrice == 30000000

IcebergBidPrice == 29999000

\* the quantities observed at the ask price: 0, 1, 2, 3 and 5
IcebergQuantities == {0, 2, 4, 6, 10}

\* the quantities observed at the bid price: 2 and 5
IcebergBidQuantities == {4, 10}

\* OrderBookUpdate values: at most one bid level and one ask level
IcebergUpdates ==
    { [bids |-> b, asks |-> a] :
        b \in {<< >>} \cup { << <<IcebergBidPrice, q>> >> : q \in IcebergBidQuantities },
        a \in {<< >>} \cup { << <<IcebergAskPrice, q>> >> : q \in IcebergQuantities } }

\* struct IcebergLevelState { double last_quantity = 0.0; int iceberg_counter = 0; }
NewLevelState == [last_quantity |-> 0, iceberg_counter |-> 0]

\* auto& level_state = book_state_[symbol][price];   (line 24)
LevelState(st, price) == IF price \in DOMAIN st THEN st[price] ELSE NewLevelState

\* quantity < level_state.last_quantity && quantity > 0   (line 28)
IsPartialDecrease(quantity, last_quantity) == quantity < last_quantity /\ quantity > 0

\* faulty variant: the counter survives a refill
CounterAfterKeepOnRefill(counter, quantity, last_quantity) ==
    IF IsPartialDecrease(quantity, last_quantity)
    THEN (IF counter + 1 >= 3 THEN 0 ELSE counter + 1)
    ELSE counter

\* the counter after one observation   (lines 28-36)
CounterAfter(counter, quantity, last_quantity) ==
    IF IsPartialDecrease(quantity, last_quantity)
    THEN (IF counter + 1 >= 3 THEN 0 ELSE counter + 1)
    ELSE 0

\* whether the observation calls emit_iceberg_event   (lines 28-31)
Emits(counter, quantity, last_quantity) ==
    IsPartialDecrease(quantity, last_quantity) /\ counter + 1 >= 3

\* the detector's state <<book_state_, h_obs, h_emitted>> after detect_iceberg
\* on each level of the list, in order   (lines 13-15, 18-20, 23-39)
RECURSIVE DetectLevels(_, _)
DetectLevels(st, levels) ==
    IF levels = << >> THEN st
    ELSE LET price == Head(levels)[1]
             quantity == Head(levels)[2]
             ls == LevelState(st[1], price)
             counter == CounterAfter(ls.iceberg_counter, quantity, ls.last_quantity)
             emitted == IF price \in DOMAIN st[3] THEN st[3][price] ELSE 0
             seen == IF price \in DOMAIN st[2] THEN st[2][price] ELSE << >>
         IN  DetectLevels(
               << MapSet(st[1], price,
                         [last_quantity |-> quantity, iceberg_counter |-> counter]),
                  MapSet(st[2], price, Append(seen, quantity)),
                  MapSet(st[3], price,
                         IF Emits(ls.iceberg_counter, quantity, ls.last_quantity)
                         THEN emitted + 1 ELSE emitted) >>,
               Tail(levels))

\* the number of levels observed so far
RECURSIVE ObservedCount(_, _)
ObservedCount(obs, prices) ==
    IF prices = {} THEN 0
    ELSE LET p == CHOOSE x \in prices : TRUE
         IN  Len(obs[p]) + ObservedCount(obs, prices \ {p})

\* ---- IcebergDetector::process_update (lines 9-21): the bids, then the asks ----
ProcessUpdate(update) ==
    /\ ObservedCount(h_obs, DOMAIN h_obs) + Len(update.bids) + Len(update.asks) <= MaxObs
    /\ LET st == DetectLevels(<<book_state_, h_obs, h_emitted>>,
                              update.bids \o update.asks)
       IN  /\ book_state_' = st[1]
           /\ h_obs' = st[2]
           /\ h_emitted' = st[3]
    /\ UNCHANGED nonIceVars

\* IcebergDetector::IcebergDetector (line 5): no level has been observed
IceInit ==
    /\ book_state_ = EmptyMap
    /\ h_obs = EmptyMap
    /\ h_emitted = EmptyMap

\* ========================================================================
\* LiquidityTracker: trade buckets
\* (src/liquidity_tracker.cpp, src/liquidity_tracker_dual_mode.cpp)
\* ========================================================================
MaxTrades == 4      \* at most this many trades are processed in a run

\* LiquidityTracker liquidity_tracker(10000.0, 10000.0, 5000.0, ...)  (src/main.cpp:25-28)
buy_bucket_size_ == 10000

sell_bucket_size_ == 10000

\* every trade is made at this price
TradePrice == 1000

\* the traded quantities: notionals of $3k, $4k, $5k and $8k
TradeQuantities == {3, 4, 5, 8}

\* the trade timestamps, in units of 1 ms (0, 100 ms, 300 ms)
TradeTimestamps == {0, 100, 300}

LtSources == {"liquidity_tracker", "liquidity_tracker_dual_mode"}

\* TradeMessageBinary values
Trades ==
    { [price |-> TradePrice, quantity |-> q, timestamp_ns |-> ts, is_buy |-> b] :
        q \in TradeQuantities, ts \in TradeTimestamps, b \in BOOLEAN }

\* double notional = trade.price * trade.quantity;
Notional(trade) == trade.price * trade.quantity

\* if (start_ts_ns_ == 0) start_ts_ns_ = ts_ns;
StartTsAfter(start_ts, ts) == IF start_ts = 0 THEN ts ELSE start_ts

\* if (accum >= bucket_size) after accum += notional
BucketFull(accum, notional, bucket_size) == accum + notional >= bucket_size

\* faulty variant: a full bucket is not reset
AccumAfterNoReset(accum, notional, bucket_size) == accum + notional

\* accum += notional; if (accum >= bucket_size) { ...; accum = 0.0; }
AccumAfter(accum, notional, bucket_size) ==
    IF BucketFull(accum, notional, bucket_size) THEN 0 ELSE accum + notional

\* bucket_cb_(is_buy, ts_ns - start_ts_ns_, bucket_size_, ratio)
Closure(is_buy, trade, start_ts, bucket_size, flow_ratio, n) ==
    [is_buy |-> is_buy,
     duration_ns |-> trade.timestamp_ns - StartTsAfter(start_ts, trade.timestamp_ns),
     bucket_size |-> bucket_size,
     ratio |-> flow_ratio,
     trade |-> n]

\* the ratio handed to the bucket callback, as the fraction <<numerator,
\* denominator>>:
\*   liquidity_tracker.cpp:84-86, 104-106
\*     (opposite > 0.0) ? same / opposite : (same > 0.0 ? 1000.0 : 1.0)
\*   liquidity_tracker_dual_mode.cpp:116, 140
\*     same / (same + opposite)
FlowRatio(flow_same, flow_opposite) ==
    IF lt_source = "liquidity_tracker"
    THEN IF flow_opposite > 0 THEN <<flow_same, flow_opposite>>
         ELSE IF flow_same > 0 THEN <<1000, 1>> ELSE <<1, 1>>
    ELSE <<flow_same, flow_same + flow_opposite>>

\* the opposite-side credit at the end of onTrade exists in
\* liquidity_tracker.cpp only  (lines 121-125)
CreditsOpposite == lt_source = "liquidity_tracker"

\* ---- LiquidityTracker::onTrade, a buy trade
\*      (liquidity_tracker.cpp:79-98, 121-122; liquidity_tracker_dual_mode.cpp:103-126) ----
OnTradeBuy(trade) ==
    LET notional == Notional(trade)
        full == BucketFull(buy_accum_usd_, notional, buy_bucket_size_)
    IN  /\ trade.is_buy
        /\ buy_accum_usd_' = AccumAfter(buy_accum_usd_, notional, buy_bucket_size_)
        /\ buy_bucket_buyflow_' = IF full THEN 0 ELSE buy_bucket_buyflow_ + notional
        /\ buy_bucket_sellflow_' = IF full THEN 0 ELSE buy_bucket_sellflow_
        /\ buy_start_ts_ns_' =
              IF full THEN 0 ELSE StartTsAfter(buy_start_ts_ns_, trade.timestamp_ns)
        /\ sell_bucket_buyflow_' =
              IF CreditsOpposite THEN sell_bucket_buyflow_ + notional
                                 ELSE sell_bucket_buyflow_
        /\ h_closures' =
              IF full
              THEN Append(h_closures,
                          Closure(TRUE, trade, buy_start_ts_ns_, buy_bucket_size_,
                                  FlowRatio(buy_bucket_buyflow_ + notional,
                                            buy_bucket_sellflow_),
                                  Len(h_trades) + 1))
              ELSE h_closures
        /\ UNCHANGED <<sell_accum_usd_, sell_bucket_sellflow_, sell_start_ts_ns_>>

\* ---- LiquidityTracker::onTrade, a sell trade
\*      (liquidity_tracker.cpp:99-119, 123-124; liquidity_tracker_dual_mode.cpp:127-151) ----
OnTradeSell(trade) ==
    LET notional == Notional(trade)
        full == BucketFull(sell_accum_usd_, notional, sell_bucket_size_)
    IN  /\ ~trade.is_buy
        /\ sell_accum_usd_' = AccumAfter(sell_accum_usd_, notional, sell_bucket_size_)
        /\ sell_bucket_sellflow_' = IF full THEN 0 ELSE sell_bucket_sellflow_ + notional
        /\ sell_bucket_buyflow_' = IF full THEN 0 ELSE sell_bucket_buyflow_
        /\ sell_start_ts_ns_' =
              IF full THEN 0 ELSE StartTsAfter(sell_start_ts_ns_, trade.timestamp_ns)
        /\ buy_bucket_sellflow_' =
              IF CreditsOpposite THEN buy_bucket_sellflow_ + notional
                                 ELSE buy_bucket_sellflow_
        /\ h_closures' =
              IF full
              THEN Append(h_closures,
                          Closure(FALSE, trade, sell_start_ts_ns_, sell_bucket_size_,
                                  FlowRatio(sell_bucket_sellflow_ + notional,
                                            sell_bucket_buyflow_),
                                  Len(h_trades) + 1))
              ELSE h_closures
        /\ UNCHANGED <<buy_accum_usd_, buy_bucket_buyflow_, buy_start_ts_ns_>>

\* ---- LiquidityTracker::onTrade; timestamps do not go back ----
OnTrade(trade) ==
    /\ Len(h_trades) < MaxTrades
    /\ h_trades # << >> => trade.timestamp_ns >= h_trades[Len(h_trades)].timestamp_ns
    /\ (OnTradeBuy(trade) \/ OnTradeSell(trade))
    /\ h_trades' = Append(h_trades, trade)
    /\ UNCHANGED <<lt_source, flowVars>>
    /\ UNCHANGED nonLtVars

\* LiquidityTracker::LiquidityTracker: every accumulator and timestamp is zero
\* (liquidity_tracker.cpp:10-37, liquidity_tracker_dual_mode.cpp:23-57)
TradeInit ==
    /\ buy_accum_usd_ = 0 /\ sell_accum_usd_ = 0
    /\ buy_bucket_buyflow_ = 0 /\ buy_bucket_sellflow_ = 0
    /\ sell_bucket_sellflow_ = 0 /\ sell_bucket_buyflow_ = 0
    /\ buy_start_ts_ns_ = 0 /\ sell_start_ts_ns_ = 0
    /\ h_trades = << >>
    /\ h_closures = << >>

\* ========================================================================
\* LiquidityTracker: order book updates and cancel buckets
\* (src/liquidity_tracker_dual_mode.cpp)
\* Prices are in units of 0.001, USD amounts in units of 0.001 USD
\* (price times volume), timestamps in units of 1 ms.
\* ========================================================================
MaxUpdates == 3     \* at most this many book updates are processed in a run

\* LiquidityTracker liquidity_tracker(10000.0, 10000.0, 5000.0, 30, 20, 0.01)
\* (src/main.cpp:25-32): the cancel bucket size in units of 0.001 USD, the
\* tick in units of 0.001; the trade bucket sizes above are in USD
cancel_bucket_size_ == 5000000

depth_levels_track_ == 30

tick_size_ == 10

\* a bid at 10.00 and an ask at 1000.00
LtBidPrice == 10000

LtAskPrice == 1000000

\* the volumes 2, 7 and 10 at one price: 10 -> 7 is a decrease of exactly
\* 30%, 10 -> 2 is Scenario E's
LtVolumes == {2, 7, 10}

LtTimestamps == {0, 100}

\* one level more than are tracked, from 10.00 downwards, tick by tick
LtDeepBids ==
    [i \in 1..(depth_levels_track_ + 1) |->
        [price |-> LtBidPrice - (i - 1) * tick_size_, volume |-> 2]]

\* the bid lists of the updates; the last one has two levels that round to 10.00
LtBidLists ==
    {<< >>} \cup { << [price |-> LtBidPrice, volume |-> v] >> : v \in LtVolumes }
        \cup { << [price |-> LtBidPrice + 4, volume |-> 2],
                  [price |-> LtBidPrice, volume |-> 7] >> }

\* the updates of a book deeper than depth_levels_track_
DeepBidLists == LtBidLists \cup { LtDeepBids }

DeepAskLists == {<< >>, << [price |-> LtAskPrice, volume |-> 10] >>}

DeepTimestamps == {100}

LtAskLists ==
    {<< >>} \cup { << [price |-> LtAskPrice, volume |-> v] >> : v \in LtVolumes }

\* double LiquidityTracker::round_price(double price) const   (lines 220-223)
round_price(price) == IF tick_size_ <= 0 THEN price ELSE RoundTo(price, tick_size_)

\* last_bids_volume_[round_price(bids[i].price)] = bids[i].volume, for the
\* first depth_levels_track_ levels   (lines 77-80, 83-86)
RECURSIVE StoreVolumes(_, _, _)
StoreVolumes(m, levels, i) ==
    IF i > Min(Len(levels), depth_levels_track_) THEN m
    ELSE StoreVolumes(MapSet(m, round_price(levels[i].price), levels[i].volume),
                      levels, i + 1)

\* faulty variant: the map is not cleared before the levels are stored
StoredAfterWithoutClear(prev, levels) == StoreVolumes(prev, levels, 1)

\* last_bids_volume_.clear() followed by the loop over the update's levels
\* (lines 73-80, 83-86)
StoredAfter(prev, levels) == StoreVolumes(EmptyMap, levels, 1)

\* prev_volume = (prev_it != prev.end()) ? prev_it->second : 0.0   (lines 239-240)
PrevVolume(prev, price) == IF price \in DOMAIN prev THEN prev[price] ELSE 0

\* volume_delta < -prev_volume * 0.3 && prev_volume > 0   (lines 257, 297)
IsCancel(volume, prev_volume) ==
    10 * (volume - prev_volume) < -3 * prev_volume /\ prev_volume > 0

\* the processCancelVolumeInternal calls of one side, in the order of the
\* loop over the stored levels (ascending price)   (lines 238-267, 278-307)
RECURSIVE CancelCalls(_, _, _, _)
CancelCalls(cur, prev, prices, is_buy) ==
    IF prices = {} THEN << >>
    ELSE LET price == SetMin(prices)
             volume == cur[price]
             prev_volume == PrevVolume(prev, price)
             volume_delta == volume - prev_volume
             rest == CancelCalls(cur, prev, prices \ {price}, is_buy)
         IN  IF volume # prev_volume /\ ~(volume_delta > 0)
                  /\ IsCancel(volume, prev_volume)
             THEN << [is_buy |-> is_buy, price |-> price,
                      cancel_volume |-> (-volume_delta) * price] >> \o rest
             ELSE rest

\* the liquidity_change_cb_ calls of one side, in the order of the loop over
\* the stored levels: LiquidityChange{price, volume_delta, timestamp_ns, is_bid}
\* for each stored level with std::abs(volume - prev_volume) > 1e-8
\* (lines 238-274, 278-314; liquidity_tracker.cpp:172-192)
RECURSIVE LiquidityChanges(_, _, _, _, _)
LiquidityChanges(cur, prev, prices, ts, is_bid) ==
    IF prices = {} THEN << >>
    ELSE LET price == SetMin(prices)
             volume_delta == cur[price] - PrevVolume(prev, price)
             rest == LiquidityChanges(cur, prev, prices \ {price}, ts, is_bid)
         IN  IF volume_delta # 0
             THEN << [price |-> price, volume_delta |-> volume_delta,
                      timestamp_ns |-> ts, is_bid |-> is_bid] >> \o rest
             ELSE rest

\* total_bid_additions / total_ask_additions   (lines 246-248, 286-288)
RECURSIVE Additions(_, _, _)
Additions(cur, prev, prices) ==
    IF prices = {} THEN 0
    ELSE LET price == SetMin(prices)
             volume_delta == cur[price] - PrevVolume(prev, price)
         IN  (IF volume_delta > 0 THEN volume_delta * price ELSE 0)
               + Additions(cur, prev, prices \ {price})

\* processCancelVolumeInternal on one side's bucket: <<bucket, closures>>
\* after the calls   (lines 351-395)
RECURSIVE CancelBucketAfter(_, _, _)
CancelBucketAfter(st, calls, ts) ==
    IF calls = << >> THEN st
    ELSE LET b == st[1]
             start_ts == IF b.start_ts = 0 THEN ts ELSE b.start_ts
             accum == b.accum + Head(calls).cancel_volume
             total == b.total + Head(calls).cancel_volume
         IN  CancelBucketAfter(
               IF accum >= cancel_bucket_size_
               THEN << [accum |-> 0, total |-> 0, start_ts |-> 0],
                       Append(st[2], [is_buy |-> Head(calls).is_buy,
                                      duration_ns |-> ts - start_ts]) >>
               ELSE << [accum |-> accum, total |-> total, start_ts |-> start_ts],
                       st[2] >>,
               Tail(calls), ts)

\* faulty variant: the bucket closes only above the threshold
OrderBucketAfterStrict(b, additions, ts, bucket_size) ==
    IF additions > 0
    THEN LET start_ts == IF b.start_ts = 0 THEN ts ELSE b.start_ts
             accum == b.accum + additions
         IN  IF accum > bucket_size
             THEN [accum |-> 0, start_ts |-> 0]
             ELSE [accum |-> accum, start_ts |-> start_ts]
    ELSE b

\* the order-flow bucket of one side after the update; bucket_size is
\* buy_bucket_size_ or sell_bucket_size_   (lines 317-348)
OrderBucketAfter(b, additions, ts, bucket_size) ==
    IF additions > 0
    THEN LET start_ts == IF b.start_ts = 0 THEN ts ELSE b.start_ts
             accum == b.accum + additions
         IN  IF accum >= bucket_size
             THEN [accum |-> 0, start_ts |-> 0]
             ELSE [accum |-> accum, start_ts |-> start_ts]
    ELSE b

\* the order_flow_buy_cb_ / order_flow_sell_cb_ call of the update, if the
\* bucket closes: (is_buy, timestamp_ns - start, bucket size, 1.0)
\* (lines 323-328, 339-344)
OrderClosures(b, additions, ts, bucket_size, is_buy, n) ==
    IF additions > 0 /\ OrderBucketAfter(b, additions, ts, bucket_size).accum = 0
    THEN << [is_buy |-> is_buy,
             duration_ns |-> ts - (IF b.start_ts = 0 THEN ts ELSE b.start_ts),
             bucket_size |-> bucket_size,
             ratio |-> <<1, 1>>,
             update |-> n] >>
    ELSE << >>

\* ---- LiquidityTracker::onOrderBookUpdate with detectLiquidityChanges
\*      (lines 63-90, 226-349) ----
OnOrderBookUpdate(timestamp_ns, update_bids, update_asks) ==
    /\ lt_source = "liquidity_tracker_dual_mode"
    /\ h_updates < MaxUpdates
    /\ LET prev_bids == last_bids_volume_
           prev_asks == last_asks_volume_
           cur_bids == StoredAfter(prev_bids, update_bids)
           cur_asks == StoredAfter(prev_asks, update_asks)
           bid_calls == CancelCalls(cur_bids, prev_bids, DOMAIN cur_bids, TRUE)
           ask_calls == CancelCalls(cur_asks, prev_asks, DOMAIN cur_asks, FALSE)
           after_bids == CancelBucketAfter(<<cancel_buy_, h_cancel_closures>>,
                                           bid_calls, timestamp_ns)
           after_asks == CancelBucketAfter(<<cancel_sell_, after_bids[2]>>,
                                           ask_calls, timestamp_ns)
       IN  /\ last_bids_volume_' = cur_bids
           /\ last_asks_volume_' = cur_asks
           /\ cancel_buy_' = after_bids[1]
           /\ cancel_sell_' = after_asks[1]
           /\ h_cancel_closures' = after_asks[2]
           /\ order_buy_' = OrderBucketAfter(order_buy_,
                                Additions(cur_bids, prev_bids, DOMAIN cur_bids),
                                timestamp_ns, 1000 * buy_bucket_size_)
           /\ order_sell_' = OrderBucketAfter(order_sell_,
                                Additions(cur_asks, prev_asks, DOMAIN cur_asks),
                                timestamp_ns, 1000 * sell_bucket_size_)
           /\ h_order_closures' =
                 h_order_closures
                   \o OrderClosures(order_buy_,
                                    Additions(cur_bids, prev_bids, DOMAIN cur_bids),
                                    timestamp_ns, 1000 * buy_bucket_size_, TRUE,
                                    h_updates + 1)
                   \o OrderClosures(order_sell_,
                                    Additions(cur_asks, prev_asks, DOMAIN cur_asks),
                                    timestamp_ns, 1000 * sell_bucket_size_, FALSE,
                                    h_updates + 1)
           /\ h_changes' =
                 LiquidityChanges(cur_bids, prev_bids, DOMAIN cur_bids, timestamp_ns, TRUE)
                   \o LiquidityChanges(cur_asks, prev_asks, DOMAIN cur_asks,
                                       timestamp_ns, FALSE)
           /\ h_prev_bids' = prev_bids
           /\ h_prev_asks' = prev_asks
           /\ h_credits' = bid_calls \o ask_calls
    /\ h_last_ts' = timestamp_ns
    /\ h_updates' = h_updates + 1
    /\ UNCHANGED tradeVars
    /\ UNCHANGED nonLtVars

\* LiquidityTracker::LiquidityTracker: empty maps, zero accumulators  (lines 23-57)
FlowInit ==
    /\ last_bids_volume_ = EmptyMap /\ last_asks_volume_ = EmptyMap
    /\ cancel_buy_ = [accum |-> 0, total |-> 0, start_ts |-> 0]
    /\ cancel_sell_ = [accum |-> 0, total |-> 0, start_ts |-> 0]
    /\ order_buy_ = [accum |-> 0, start_ts |-> 0]
    /\ order_sell_ = [accum |-> 0, start_ts |-> 0]
    /\ h_updates = 0
    /\ h_prev_bids = EmptyMap /\ h_prev_asks = EmptyMap
    /\ h_credits = << >>
    /\ h_cancel_closures = << >>
    /\ h_order_closures = << >>
    /\ h_changes = << >>
    /\ h_last_ts = 0

\* either build of the tracker, freshly constructed
LtInit == lt_source \in LtSources /\ TradeInit /\ FlowInit

\* ========================================================================
\* Feed client callback, ring consumer (dispatcher) and consumer queues
\* (src/binance_connector.cpp, src/ring_buffer_consumer.cpp)
\* A byte in a ring is [v, f, o]: its value v, and as history the number f
\* of the frame it was written for and its offset o in that frame.  The
\* fields of the payloads are scaled to one byte each.
\* ========================================================================
MaxMessages == 3    \* at most this many messages arrive at callback_ws in a run

MaxFrames == 2      \* at most this many frames are written to the ring in a run

\* enum MessageType   (src/ring_buffer_consumer.cpp:19-22)
TYPE_TRADE == 1

TYPE_ORDERBOOK == 2

\* constexpr size_t HEADER_SIZE = 5   (src/ring_buffer_consumer.cpp:48)
HEADER_SIZE == 5

\* MMapBuffer buffer(4096, false)   (src/ring_buffer_consumer.cpp:40)
BufferCapacity == 4096

\* sizeof(TradeMessageBinary): trade_id and the buyer-maker flag
TradeSize == 2

\* sizeof(uint64_t) * 2 + sizeof(uint32_t) * 2: timestamp_ns, last_update_id,
\* bid_count, ask_count   (src/serialization.cpp:133)
BookHeaderSize == 4

\* sizeof(PriceLevel)
LevelSize == 1

\* the trades and depth updates the parsers return
FeedTrades ==
    { [e |-> "trade", trade_id |-> i, flags |-> m] : i \in {1, 2}, m \in {0, 1} }

\* ---- the depth updates on the wire ----
\* a PriceLevel {price, quantity} is one cell: price * LevelBase + quantity
LevelBase == 10

PriceLevel(price, quantity) == price * LevelBase + quantity

Quantity(level) == level % LevelBase

\* the ["price", "quantity"] pairs of the "b" and "a" arrays: quantity 0
\* asks for the removal of the level
WireLevelLists == { << >>, << <<1, 3>> >>, << <<1, 0>> >>, << <<2, 0>>, <<1, 3>> >> }

\* the depthUpdate events: "E" in ms, "u", "b", "a"
WireDepthUpdates ==
    { [e |-> "depthUpdate", E |-> 1, u |-> i, b |-> b, a |-> << >>] :
        i \in {1, 2}, b \in WireLevelLists }

\* faulty variant: the levels of quantity 0 are kept
LevelsParsedKeepingZero(levels) ==
    [i \in 1..Len(levels) |-> PriceLevel(levels[i][1], levels[i][2])]

\* the loops over j["b"] and j["a"]: a level is pushed back if its
\* quantity is greater than 0   (src/serialization.cpp:92-120)
LevelsParsed(levels) ==
    LET kept == SelectSeq(levels, LAMBDA level : level[2] > 0)
    IN  [i \in 1..Len(kept) |-> PriceLevel(kept[i][1], kept[i][2])]

\* Serialization::parse_orderbook_json of a depthUpdate event that parses;
\* timestamp_ns in units of 1 ms   (src/serialization.cpp:67-122)
parse_orderbook_json(j) ==
    [e |-> "depthUpdate", timestamp_ns |-> j.E, last_update_id |-> j.u,
     bids |-> LevelsParsed(j.b), asks |-> LevelsParsed(j.a)]

FeedBooks == { parse_orderbook_json(j) : j \in WireDepthUpdates }

FeedMessages == FeedTrades \cup FeedBooks

\* the messages that are written as frames
FrameMessages ==
    { m \in FeedMessages : IF m.e = "trade" THEN m.flags = 1 ELSE m.last_update_id = 1 }

\* TSQueue::push (core/ts_queue.hpp): the item goes to the back of the queue
Push(queue, item) == Append(queue, item)

\* the record of a push
PushOf(queue, item, by, frame) ==
    [queue |-> queue, item |-> item, by |-> by, frame |-> frame]

\* ---- callback_ws, LWS_CALLBACK_CLIENT_RECEIVE
\*      (src/binance_connector.cpp:38-69) ----
\* a trade message: parse_trade_json, trade_queue.push   (lines 43-49)
CallbackWsTrade(trade_msg) ==
    /\ Len(h_parsed) < MaxMessages
    /\ trade_queue' = Push(trade_queue, trade_msg)
    /\ h_parsed' = Append(h_parsed, trade_msg)
    /\ h_pushes' = Append(h_pushes, PushOf("trade_queue", trade_msg, "callback_ws", 0))
    /\ UNCHANGED <<mmap_buffer, buffer, liquidity_queue, iceberg_queue,
                   d_pc, d_msg_type, d_msg_length, p_pending,
                   h_frames, h_headers, h_reads>>
    /\ UNCHANGED nonDispVars

\* a depth update that parses: liquidity_queue.push, iceberg_queue.push
\* (lines 51-62)
CallbackWsDepth(book) ==
    /\ Len(h_parsed) < MaxMessages
    /\ liquidity_queue' = Push(liquidity_queue, book)
    /\ iceberg_queue' = Push(iceberg_queue, book)
    /\ h_parsed' = Append(h_parsed, book)
    /\ h_pushes' = h_pushes \o << PushOf("liquidity_queue", book, "callback_ws", 0),
                                 PushOf("iceberg_queue", book, "callback_ws", 0) >>
    /\ UNCHANGED <<mmap_buffer, buffer, trade_queue,
                   d_pc, d_msg_type, d_msg_length, p_pending,
                   h_frames, h_headers, h_reads>>
    /\ UNCHANGED nonDispVars

\* any other text, a depth update that does not parse, a parser that throws
\* (lines 55-56, 64-66)
CallbackWsIgnored ==
    /\ UNCHANGED dispVars
    /\ UNCHANGED nonDispVars

\* ---- the frames on the ring ----
\* uint32_t length, little-endian
LengthBytes(n) ==
    << n % 256, (n \div 256) % 256, (n \div 65536) % 256, (n \div 16777216) % 256 >>

\* std::memcpy(&msg_length, data_buffer.data() + 1, sizeof(uint32_t))
\* (src/ring_buffer_consumer.cpp:53-54)
DecodeLength(b) == b[2] + 256 * b[3] + 65536 * b[4] + 16777216 * b[5]

\* Serialization::serialize_trade   (src/serialization.cpp:50-54)
serialize_trade(trade) == << trade.trade_id, trade.flags >>

\* Serialization::deserialize_trade   (src/serialization.cpp:56-63)
deserialize_trade(data) ==
    [e |-> "trade", trade_id |-> data[1], flags |-> data[2]]

\* ---- uint32_t ----
\* A uint32_t cell holds the integer with the same 32 bits: 2^32 - k is
\* written -k. Its value is the pair << high 16 bits, low 16 bits >>.
Half == 65536

\* the value of the uint32_t read from a cell
\* (std::memcpy(&bid_count, ptr, sizeof(uint32_t)), src/serialization.cpp:183-188)
U32(n) == << (n \div Half) % Half, n % Half >>

\* a + b of two uint32_t: the carry out of the high half is lost
\* (bid_count + ask_count, src/serialization.cpp:192)
AddU32(a, b) ==
    LET lo == a[2] + b[2]
    IN  << (a[1] + b[1] + lo \div Half) % Half, lo % Half >>

\* the levels the two loops read, as a size_t: bid_count and then ask_count
\* of them   (src/serialization.cpp:199-209)
LevelsRead(a, b) ==
    LET lo == a[2] + b[2]
    IN  << a[1] + b[1] + lo \div Half, lo % Half >>

\* count > n, for a count held as two halves
Exceeds(count, n) ==
    \/ count[1] > n \div Half
    \/ count[1] = n \div Half /\ count[2] > n % Half

\* faulty variant: the asks are written before the bids
serialize_orderbook_asks_first(book) ==
    << book.timestamp_ns, book.last_update_id, Len(book.bids), Len(book.asks) >>
        \o book.asks \o book.bids

\* Serialization::serialize_orderbook   (src/serialization.cpp:129-166)
serialize_orderbook(book) ==
    << book.timestamp_ns, book.last_update_id, Len(book.bids), Len(book.asks) >>
        \o book.bids \o book.asks

\* the PriceLevel values after the header of a buffer
LevelsAvailable(data) == (Len(data) - BookHeaderSize) \div LevelSize

\* Serialization::deserialize_orderbook throws std::runtime_error: size is
\* less than the header, or less than expected_size, whose level count is the
\* uint32_t sum bid_count + ask_count   (src/serialization.cpp:169-171, 190-195)
DeserializeThrows(data) ==
    \/ Len(data) < BookHeaderSize
    \/ Exceeds(AddU32(U32(data[3]), U32(data[4])), LevelsAvailable(data))

\* Serialization::deserialize_orderbook   (src/serialization.cpp:168-213)
deserialize_orderbook(data) ==
    [e |-> "depthUpdate", timestamp_ns |-> data[1], last_update_id |-> data[2],
     bids |-> SubSeq(data, BookHeaderSize + 1, BookHeaderSize + data[3]),
     asks |-> SubSeq(data, BookHeaderSize + data[3] + 1,
                     BookHeaderSize + data[3] + data[4])]

\* book.bids.resize / book.asks.resize of 2^31 PriceLevel or more: the
\* allocation of 32 GiB may fail with std::bad_alloc
\* (src/serialization.cpp:198, 205)
ResizeMayThrow(count) == count[1] >= Half \div 2

\* what one call of deserialize_orderbook(data, size) does: the value
\* returned or the exception thrown, and the cells of data read. A memcpy
\* from beyond data + size is undefined behaviour: the cell after the last
\* is read and nothing is known of what follows.
DeserializeOutcomes(data) ==
    IF Len(data) < BookHeaderSize
    THEN { [out |-> [e |-> "runtime_error"], read |-> 0] }
    ELSE IF DeserializeThrows(data)
    THEN { [out |-> [e |-> "runtime_error"], read |-> BookHeaderSize] }
    ELSE IF ~Exceeds(LevelsRead(U32(data[3]), U32(data[4])), LevelsAvailable(data))
    THEN { [out |-> deserialize_orderbook(data),
            read |-> BookHeaderSize + (data[3] + data[4]) * LevelSize] }
    ELSE IF Exceeds(U32(data[3]), LevelsAvailable(data))
    THEN { [out |-> [e |-> "out_of_bounds"], read |-> Len(data) + 1] }
         \cup IF ResizeMayThrow(U32(data[3]))
              THEN { [out |-> [e |-> "bad_alloc"], read |-> BookHeaderSize] }
              ELSE { }
    ELSE { [out |-> [e |-> "out_of_bounds"], read |-> Len(data) + 1] }
         \cup IF ResizeMayThrow(U32(data[4]))
              THEN { [out |-> [e |-> "bad_alloc"],
                      read |-> BookHeaderSize + data[3] * LevelSize] }
              ELSE { }

\* the frame of a message: type tag, length, payload
FrameBytes(msg) ==
    LET payload == IF msg.e = "trade" THEN serialize_trade(msg)
                   ELSE serialize_orderbook(msg)
    IN  << IF msg.e = "trade" THEN TYPE_TRADE ELSE TYPE_ORDERBOOK >>
          \o LengthBytes(Len(payload)) \o payload

TaggedBytes(bytes, frame) ==
    [i \in 1..Len(bytes) |-> [v |-> bytes[i], f |-> frame, o |-> i - 1]]

Values(bytes) == [i \in 1..Len(bytes) |-> bytes[i].v]

\* ---- the writer of the Ring Bus: one header followed by the payload, not
\*      atomically (the ring accepts a frame in parts) ----
BeginFrame(msg) ==
    /\ p_pending = << >>
    /\ Len(h_frames) < MaxFrames
    /\ p_pending' = TaggedBytes(FrameBytes(msg), Len(h_frames) + 1)
    /\ h_frames' = Append(h_frames, msg)
    /\ UNCHANGED <<mmap_buffer, buffer, trade_queue, liquidity_queue, iceberg_queue,
                   d_pc, d_msg_type, d_msg_length, h_parsed, h_headers, h_reads,
                   h_pushes>>
    /\ UNCHANGED nonDispVars

\* MMapBuffer::write of the next len bytes of the frame
WriteBytes(len) ==
    /\ len \in 1..Len(p_pending)
    /\ LET space == BufferCapacity - 1 - Len(buffer)
           to_write == Min(len, space)
       IN  /\ buffer' = buffer \o SubSeq(p_pending, 1, to_write)
           /\ p_pending' = SubSeq(p_pending, to_write + 1, Len(p_pending))
    /\ UNCHANGED <<mmap_buffer, trade_queue, liquidity_queue, iceberg_queue,
                   d_pc, d_msg_type, d_msg_length, h_parsed, h_frames, h_headers,
                   h_reads, h_pushes>>
    /\ UNCHANGED nonDispVars

\* ---- consume_ring_buffer   (src/ring_buffer_consumer.cpp:39-140) ----
\* buffer.read(data_buffer.data(), HEADER_SIZE) and the decoding of the header
\* (lines 49-59)
ReadHeader ==
    /\ d_pc = "header"
    /\ LET header_bytes_read == Min(HEADER_SIZE, Len(buffer))
           data_buffer == SubSeq(buffer, 1, header_bytes_read)
       IN  /\ buffer' = SubSeq(buffer, header_bytes_read + 1, Len(buffer))
           /\ IF header_bytes_read = HEADER_SIZE
              THEN /\ d_msg_type' = data_buffer[1].v
                   /\ d_msg_length' = DecodeLength(Values(data_buffer))
                   /\ d_pc' = "body"
                   /\ h_headers' = Append(h_headers, data_buffer)
              ELSE UNCHANGED <<d_msg_type, d_msg_length, d_pc, h_headers>>
    /\ UNCHANGED <<mmap_buffer, trade_queue, liquidity_queue, iceberg_queue,
                   p_pending, h_parsed, h_frames, h_reads, h_pushes>>
    /\ UNCHANGED nonDispVars

\* the number of the frame a header and a body are the bytes of, 0 if they are
\* not the bytes of one frame of the writer
FrameRead(header, body) ==
    LET all == header \o body
    IN  IF /\ \A i \in 1..Len(all) : all[i].f = all[1].f /\ all[i].o = i - 1
           /\ Len(all) = Len(FrameBytes(h_frames[all[1].f]))
        THEN all[1].f ELSE 0

\* the pushes of one complete message   (lines 66-126)
PushesOfOnlyIceberg(msg_type, msg_length, data, frame) ==
    IF msg_type = TYPE_TRADE
    THEN IF msg_length = TradeSize
         THEN << PushOf("trade_queue", deserialize_trade(data),
                        "consume_ring_buffer", frame) >>
         ELSE << >>
    ELSE IF msg_type = TYPE_ORDERBOOK /\ ~DeserializeThrows(data)
         THEN << PushOf("iceberg_queue", deserialize_orderbook(data),
                        "consume_ring_buffer", frame) >>
         ELSE << >>

PushesOf(msg_type, msg_length, data, frame) ==
    IF msg_type = TYPE_TRADE
    THEN IF msg_length = TradeSize
         THEN << PushOf("trade_queue", deserialize_trade(data),
                        "consume_ring_buffer", frame) >>
         ELSE << >>
    ELSE IF msg_type = TYPE_ORDERBOOK
         THEN IF DeserializeThrows(data) THEN << >>
              ELSE << PushOf("iceberg_queue", deserialize_orderbook(data),
                             "consume_ring_buffer", frame),
                      PushOf("liquidity_queue", deserialize_orderbook(data),
                             "consume_ring_buffer", frame) >>
         ELSE << >>

\* the queue after the pushes made to it
RECURSIVE QueueAfter(_, _, _)
QueueAfter(queue, name, pushes) ==
    IF pushes = << >> THEN queue
    ELSE QueueAfter(IF Head(pushes).queue = name
                    THEN Push(queue, Head(pushes).item) ELSE queue,
                    name, Tail(pushes))

\* buffer.read(data_buffer.data(), msg_length) and the switch on msg_type
\* (lines 62-130)
ReadBody ==
    /\ d_pc = "body"
    /\ LET body_bytes_read == Min(d_msg_length, Len(buffer))
           data_buffer == SubSeq(buffer, 1, body_bytes_read)
           header == h_headers[Len(h_headers)]
           frame == FrameRead(header, data_buffer)
           pushes == IF body_bytes_read = d_msg_length
                     THEN PushesOf(d_msg_type, d_msg_length, Values(data_buffer), frame)
                     ELSE << >>
       IN  /\ buffer' = SubSeq(buffer, body_bytes_read + 1, Len(buffer))
           /\ trade_queue' = QueueAfter(trade_queue, "trade_queue", pushes)
           /\ iceberg_queue' = QueueAfter(iceberg_queue, "iceberg_queue", pushes)
           /\ liquidity_queue' = QueueAfter(liquidity_queue, "liquidity_queue", pushes)
           /\ h_pushes' = h_pushes \o pushes
           /\ h_reads' = IF body_bytes_read = d_msg_length
                         THEN Append(h_reads, [msg_type |-> d_msg_type,
                                               msg_length |-> d_msg_length,
                                               frame |-> frame])
                         ELSE h_reads
    /\ d_pc' = "header"
    /\ UNCHANGED <<mmap_buffer, d_msg_type, d_msg_length, p_pending,
                   h_parsed, h_frames, h_headers>>
    /\ UNCHANGED nonDispVars

\* both rings and the three queues empty, the consumer before its first read
DispInit ==
    /\ mmap_buffer = << >> /\ buffer = << >>
    /\ trade_queue = << >> /\ liquidity_queue = << >> /\ iceberg_queue = << >>
    /\ d_pc = "header" /\ d_msg_type = 0 /\ d_msg_length = 0
    /\ p_pending = << >>
    /\ h_parsed = << >> /\ h_frames = << >> /\ h_headers = << >>
    /\ h_reads = << >> /\ h_pushes = << >>

\* ========================================================================
\* main, its worker threads and the shutdown sequence
\* (src/main.cpp:60-127, src/binance_connector.cpp:87-148)
\* The consumer threads hand each popped item to IcebergDetector or
\* LiquidityTracker; the item is recorded in h_processed, the components
\* themselves are the subject of SpecIceberg, SpecTrades and SpecFlow.
\* ========================================================================
QueueNames == {"trade_queue", "liquidity_queue", "iceberg_queue"}

\* std::nullopt
Nullopt == [e |-> "nullopt"]

\* the messages that arrive while main runs
MainTrades == { t \in FeedTrades : t.flags = 1 }

MainBooks == { b \in FeedBooks : b.last_update_id = 1 /\ b.bids = << >> }

\* ---- TSQueue (core/ts_queue.hpp) ----
\* pop() of a queue that holds an item, and try_pop(): the front item
Front(queue) == IF queue = << >> THEN Nullopt ELSE Head(queue)

Rest(queue) == IF queue = << >> THEN queue ELSE Tail(queue)

\* pop() blocks while the queue is empty and not closed
PopBlocks(queue, is_closed) == queue = << >> /\ ~is_closed

\* ---- ws_thread: connector.start()   (src/binance_connector.cpp:141-144) ----
\* running = true   (line 142)
WsStart ==
    /\ ws_pc = "start"
    /\ running' = TRUE
    /\ ws_pc' = "create"
    /\ UNCHANGED <<main_pc, consumer_pc, iceberg_pc, liquidity_pc, stop_flag, closed,
                   update_opt, trade_opt, h_processed>>
    /\ UNCHANGED <<dispVars, nonMainVars>>

\* lws_create_context or lws_client_connect_via_info fails: run() returns
\* (lines 102-106, 118-122)
WsConnectFails ==
    /\ ws_pc = "create"
    /\ ws_pc' = "exited"
    /\ UNCHANGED <<main_pc, consumer_pc, iceberg_pc, liquidity_pc, running, stop_flag,
                   closed, update_opt, trade_opt, h_processed>>
    /\ UNCHANGED <<dispVars, nonMainVars>>

\* the context is created and the connection initiated; running = true
\* (lines 102-124)
WsConnected ==
    /\ ws_pc = "create"
    /\ running' = TRUE
    /\ ws_pc' = "loop"
    /\ UNCHANGED <<main_pc, consumer_pc, iceberg_pc, liquidity_pc, stop_flag, closed,
                   update_opt, trade_opt, h_processed>>
    /\ UNCHANGED <<dispVars, nonMainVars>>

\* while (running)   (line 126); lws_context_destroy and return (line 130)
WsLoopTest ==
    /\ ws_pc = "loop"
    /\ ws_pc' = IF running THEN "service" ELSE "exited"
    /\ UNCHANGED <<main_pc, consumer_pc, iceberg_pc, liquidity_pc, running, stop_flag,
                   closed, update_opt, trade_opt, h_processed>>
    /\ UNCHANGED <<dispVars, nonMainVars>>

\* lws_service(context, 100) calls callback_ws for a received message
\* (line 127)
WsReceiveTrade(trade_msg) ==
    /\ ws_pc = "service"
    /\ CallbackWsTrade(trade_msg)

WsReceiveDepth(book) ==
    /\ ws_pc = "service"
    /\ CallbackWsDepth(book)

\* lws_service returns
WsServiceReturns ==
    /\ ws_pc = "service"
    /\ ws_pc' = "loop"
    /\ UNCHANGED <<main_pc, consumer_pc, iceberg_pc, liquidity_pc, running, stop_flag,
                   closed, update_opt, trade_opt, h_processed>>
    /\ UNCHANGED <<dispVars, nonMainVars>>

\* ---- consumer_thread: consume_ring_buffer
\*      (src/ring_buffer_consumer.cpp:46-139) ----
\* one iteration while stop_flag is not set: the header read
ConsumerIterates ==
    /\ consumer_pc = "loop"
    /\ ~stop_flag
    /\ ReadHeader

\* while (!stop_flag.load(...)) is left
ConsumerExits ==
    /\ consumer_pc = "loop"
    /\ stop_flag
    /\ consumer_pc' = "exited"
    /\ UNCHANGED <<main_pc, ws_pc, iceberg_pc, liquidity_pc, running, stop_flag,
                   closed, update_opt, trade_opt, h_processed>>
    /\ UNCHANGED <<dispVars, nonMainVars>>

\* ---- iceberg_thread   (src/main.cpp:66-73) ----
\* auto update_opt = iceberg_queue.pop(); if (!update_opt.has_value()) break;
IcebergPop ==
    /\ iceberg_pc = "pop"
    /\ ~PopBlocks(iceberg_queue, closed["iceberg_queue"])
    /\ update_opt' = [update_opt EXCEPT !["iceberg"] = Front(iceberg_queue)]
    /\ iceberg_queue' = Rest(iceberg_queue)
    /\ iceberg_pc' = IF iceberg_queue = << >> THEN "exited" ELSE "process"
    /\ UNCHANGED <<main_pc, ws_pc, consumer_pc, liquidity_pc, running, stop_flag,
                   closed, trade_opt, h_processed>>
    /\ UNCHANGED <<mmap_buffer, buffer, trade_queue, liquidity_queue,
                   d_pc, d_msg_type, d_msg_length, p_pending,
                   h_parsed, h_frames, h_headers, h_reads, h_pushes>>
    /\ UNCHANGED nonMainVars

\* iceberg_detector.process_update(update_opt.value())
IcebergProcess ==
    /\ iceberg_pc = "process"
    /\ h_processed' = [h_processed EXCEPT !["iceberg_queue"] =
                         Append(@, update_opt["iceberg"])]
    /\ iceberg_pc' = "pop"
    /\ UNCHANGED <<main_pc, ws_pc, consumer_pc, liquidity_pc, running, stop_flag,
                   closed, update_opt, trade_opt>>
    /\ UNCHANGED <<dispVars, nonMainVars>>

\* ---- liquidity_thread   (src/main.cpp:76-106) ----
\* auto update_opt = liquidity_queue.try_pop()   (line 79)
LiquidityTryPopUpdate ==
    /\ liquidity_pc = "try_update"
    /\ update_opt' = [update_opt EXCEPT !["liquidity"] = Front(liquidity_queue)]
    /\ liquidity_queue' = Rest(liquidity_queue)
    /\ liquidity_pc' = IF liquidity_queue = << >> THEN "try_trade" ELSE "on_update"
    /\ UNCHANGED <<main_pc, ws_pc, consumer_pc, iceberg_pc, running, stop_flag,
                   closed, trade_opt, h_processed>>
    /\ UNCHANGED <<mmap_buffer, buffer, trade_queue, iceberg_queue,
                   d_pc, d_msg_type, d_msg_length, p_pending,
                   h_parsed, h_frames, h_headers, h_reads, h_pushes>>
    /\ UNCHANGED nonMainVars

\* liquidity_tracker.onOrderBookUpdate(...)   (lines 80-88)
LiquidityOnUpdate ==
    /\ liquidity_pc = "on_update"
    /\ h_processed' = [h_processed EXCEPT !["liquidity_queue"] =
                         Append(@, update_opt["liquidity"])]
    /\ liquidity_pc' = "try_trade"
    /\ UNCHANGED <<main_pc, ws_pc, consumer_pc, iceberg_pc, running, stop_flag,
                   closed, update_opt, trade_opt>>
    /\ UNCHANGED <<dispVars, nonMainVars>>

\* auto trade_opt = trade_queue.try_pop()   (line 90)
LiquidityTryPopTrade ==
    /\ liquidity_pc = "try_trade"
    /\ trade_opt' = Front(trade_queue)
    /\ trade_queue' = Rest(trade_queue)
    /\ liquidity_pc' = IF trade_queue = << >> THEN "exit1" ELSE "on_trade"
    /\ UNCHANGED <<main_pc, ws_pc, consumer_pc, iceberg_pc, running, stop_flag,
                   closed, update_opt, h_processed>>
    /\ UNCHANGED <<mmap_buffer, buffer, liquidity_queue, iceberg_queue,
                   d_pc, d_msg_type, d_msg_length, p_pending,
                   h_parsed, h_frames, h_headers, h_reads, h_pushes>>
    /\ UNCHANGED nonMainVars

\* liquidity_tracker.onTrade(trade)   (lines 91-96)
LiquidityOnTrade ==
    /\ liquidity_pc = "on_trade"
    /\ h_processed' = [h_processed EXCEPT !["trade_queue"] = Append(@, trade_opt)]
    /\ liquidity_pc' = "exit1"
    /\ UNCHANGED <<main_pc, ws_pc, consumer_pc, iceberg_pc, running, stop_flag,
                   closed, update_opt, trade_opt>>
    /\ UNCHANGED <<dispVars, nonMainVars>>

\* the operands of the exit condition, evaluated one after the other
\* (lines 98-100)
ExitSteps == <<"exit1", "exit2", "exit3", "exit4", "exit5">>

ExitOperandNoTradeEmpty(step) ==
    CASE step = "exit1" -> closed["liquidity_queue"]
      [] step = "exit2" -> liquidity_queue = << >>
      [] step = "exit3" -> closed["trade_queue"]
      [] step = "exit4" -> TRUE
      [] step = "exit5" -> stop_flag

ExitOperand(step) ==
    CASE step = "exit1" -> closed["liquidity_queue"]
      [] step = "exit2" -> liquidity_queue = << >>
      [] step = "exit3" -> closed["trade_queue"]
      [] step = "exit4" -> trade_queue = << >>
      [] step = "exit5" -> stop_flag

\* one operand of the && chain: false leads to the sleep, the last true to break
LiquidityExitTest ==
    /\ \E i \in 1..Len(ExitSteps) :
         /\ liquidity_pc = ExitSteps[i]
         /\ liquidity_pc' = IF ~ExitOperand(ExitSteps[i]) THEN "try_update"
                            ELSE IF i = Len(ExitSteps) THEN "exited"
                            ELSE ExitSteps[i + 1]
    /\ UNCHANGED <<main_pc, ws_pc, consumer_pc, iceberg_pc, running, stop_flag,
                   closed, update_opt, trade_opt, h_processed>>
    /\ UNCHANGED <<dispVars, nonMainVars>>

\* ---- main   (src/main.cpp:108-125) ----
\* std::cin.get() returns; connector.stop(): running = false
\* (src/main.cpp:109-113, src/binance_connector.cpp:146-148)
MainStopConnector ==
    /\ main_pc = "cin_get"
    /\ running' = FALSE
    /\ main_pc' = "join_ws"
    /\ UNCHANGED <<ws_pc, consumer_pc, iceberg_pc, liquidity_pc, stop_flag, closed,
                   update_opt, trade_opt, h_processed>>
    /\ UNCHANGED <<dispVars, nonMainVars>>

\* ws_thread.join(); stop_flag.store(true)   (lines 114-115)
MainJoinWs ==
    /\ main_pc = "join_ws"
    /\ ws_pc = "exited"
    /\ stop_flag' = TRUE
    /\ main_pc' = "join_consumer"
    /\ UNCHANGED <<ws_pc, consumer_pc, iceberg_pc, liquidity_pc, running, closed,
                   update_opt, trade_opt, h_processed>>
    /\ UNCHANGED <<dispVars, nonMainVars>>

\* consumer_thread.join()   (line 116)
MainJoinConsumer ==
    /\ main_pc = "join_consumer"
    /\ consumer_pc = "exited"
    /\ main_pc' = "close_iceberg"
    /\ UNCHANGED <<ws_pc, consumer_pc, iceberg_pc, liquidity_pc, running, stop_flag,
                   closed, update_opt, trade_opt, h_processed>>
    /\ UNCHANGED <<dispVars, nonMainVars>>

\* iceberg_queue.close(); liquidity_queue.close(); trade_queue.close()
\* (lines 118-120), one call per step
MainCloseQueue ==
    /\ \E step \in { <<"close_iceberg", "iceberg_queue", "close_liquidity">>,
                     <<"close_liquidity", "liquidity_queue", "close_trade">>,
                     <<"close_trade", "trade_queue", "join_iceberg">> } :
         /\ main_pc = step[1]
         /\ closed' = [closed EXCEPT ![step[2]] = TRUE]
         /\ main_pc' = step[3]
    /\ UNCHANGED <<ws_pc, consumer_pc, iceberg_pc, liquidity_pc, running, stop_flag,
                   update_opt, trade_opt, h_processed>>
    /\ UNCHANGED <<dispVars, nonMainVars>>

\* iceberg_thread.join()   (line 122)
MainJoinIceberg ==
    /\ main_pc = "join_iceberg"
    /\ iceberg_pc = "exited"
    /\ main_pc' = "join_liquidity"
    /\ UNCHANGED <<ws_pc, consumer_pc, iceberg_pc, liquidity_pc, running, stop_flag,
                   closed, update_opt, trade_opt, h_processed>>
    /\ UNCHANGED <<dispVars, nonMainVars>>

\* liquidity_thread.join()   (line 123)
MainJoinLiquidity ==
    /\ main_pc = "join_liquidity"
    /\ liquidity_pc = "exited"
    /\ main_pc' = "done"
    /\ UNCHANGED <<ws_pc, consumer_pc, iceberg_pc, liquidity_pc, running, stop_flag,
                   closed, update_opt, trade_opt, h_processed>>
    /\ UNCHANGED <<dispVars, nonMainVars>>

\* the four threads constructed, main in std::cin.get()
\* (src/main.cpp:60-109; BinanceConnector::BinanceConnector, stop_flag(false))
MainInit ==
    /\ main_pc = "cin_get"
    /\ ws_pc = "start" /\ consumer_pc = "loop"
    /\ iceberg_pc = "pop" /\ liquidity_pc = "try_update"
    /\ running = FALSE /\ stop_flag = FALSE
    /\ closed = [q \in QueueNames |-> FALSE]
    /\ update_opt = [t \in {"iceberg", "liquidity"} |-> Nullopt]
    /\ trade_opt = Nullopt
    /\ h_processed = [q \in QueueNames |-> << >>]

\* main of a run that does not exercise it
MainIdle == MainInit

\* ------------------------------------------------------------------------
\* Serialization: a message serialized and deserialized again
\* (src/serialization.cpp:50-63, 129-213)
\* ------------------------------------------------------------------------
\* the PriceLevel values {price, quantity} of the inputs
CodecLevels == { <<3, 1>>, <<4, 2>> }

CodecLevelLists ==
    { << >> } \cup { <<a>> : a \in CodecLevels }
              \cup { <<a, b>> : a \in CodecLevels, b \in CodecLevels }

CodecTrades ==
    { [e |-> "trade", trade_id |-> i, flags |-> m] : i \in 0..MaxField, m \in 0..MaxField }

CodecBooks ==
    { [e |-> "depthUpdate", timestamp_ns |-> ts, last_update_id |-> i,
       bids |-> b, asks |-> a] :
        ts \in {0, 1}, i \in 1..MaxField, b \in CodecLevelLists, a \in CodecLevelLists }

NoCodecMsg == [e |-> "none"]

\* serialize_trade / serialize_orderbook of the message
CodecSerialize ==
    /\ codec_pc = "serialize"
    /\ codec_data' = IF codec_msg.e = "trade" THEN serialize_trade(codec_msg)
                     ELSE serialize_orderbook(codec_msg)
    /\ codec_pc' = "deserialize"
    /\ UNCHANGED <<codec_msg, codec_out, codec_read>>
    /\ UNCHANGED nonCodecVars

\* deserialize_trade / deserialize_orderbook of the bytes
CodecDeserialize ==
    /\ codec_pc = "deserialize"
    /\ IF codec_msg.e = "trade"
       THEN /\ codec_out' = deserialize_trade(codec_data)
            /\ codec_read' = TradeSize
       ELSE \E o \in DeserializeOutcomes(codec_data) :
               /\ codec_out' = o.out
               /\ codec_read' = o.read
    /\ codec_pc' = "done"
    /\ UNCHANGED <<codec_msg, codec_data>>
    /\ UNCHANGED nonCodecVars

\* ---- a TYPE_ORDERBOOK payload taken from the ring: whatever bytes the
\*      writer of the ring left there ----
\* the bid_count and ask_count of the payloads
CodecCounts == { 0, 1, 2, 2147483647, -2147483647, -2, -1 }

CodecPayloads ==
    { << >>, << 0, 1, 0 >> }
    \cup { << ts, 1, b, a >> \o levels :
              ts \in {0, 1}, b \in CodecCounts, a \in CodecCounts,
              levels \in CodecLevelLists }

\* consume_ring_buffer, case TYPE_ORDERBOOK: deserialize_orderbook of the
\* payload, an exception caught and logged
\* (src/ring_buffer_consumer.cpp:90-119)
ConsumeOrderbookPayload ==
    /\ codec_pc = "payload"
    /\ \E o \in DeserializeOutcomes(codec_data) :
          /\ codec_out' = o.out
          /\ codec_read' = o.read
    /\ codec_pc' = "consumed"
    /\ UNCHANGED <<codec_msg, codec_data>>
    /\ UNCHANGED nonCodecVars

CodecInit ==
    /\ codec_out = NoCodecMsg
    /\ codec_read = 0
    /\ \/ /\ codec_pc = "serialize"
          /\ codec_msg \in CodecTrades \cup CodecBooks
          /\ codec_data = << >>
       \/ /\ codec_pc = "payload"
          /\ codec_msg = NoCodecMsg
          /\ codec_data \in CodecPayloads

CodecIdle ==
    /\ codec_pc = "idle"
    /\ codec_msg = NoCodecMsg
    /\ codec_data = << >>
    /\ codec_out = NoCodecMsg
    /\ codec_read = 0

\* ------------------------------------------------------------------------
\* Specifications
\* ------------------------------------------------------------------------
\* the tracker of a run that does not exercise it
LtIdle == lt_source = "liquidity_tracker" /\ TradeInit /\ FlowInit

InitRing == RingInit /\ BookInit /\ IceInit /\ LtIdle /\ DispInit /\ CodecIdle /\ MainIdle

NextRing == WriteStep \/ ReadStep

SpecRing == InitRing /\ [][NextRing]_vars

InitBook == BookInit /\ RingIdle /\ IceInit /\ LtIdle /\ DispInit /\ CodecIdle /\ MainIdle

NextBook ==
    \/ Start
    \/ SpawnThreads
    \/ \E t \in Threads : FetchFail(t)
    \/ \E t \in Threads : \E s \in Snapshots : FetchResponse(t, s)
    \/ \E t \in Threads : InstallSnapshot(t)
    \/ \E t \in Threads : PrintOrderbook(t)
    \/ \E t \in Threads : SweepStaleBids(t)
    \/ \E d \in WellFormedDiffs : WsReceive(d)
    \/ WsSkipOld
    \/ WsAccept
    \/ WsGap
    \/ WsApply
    \/ ApiPeriodic
    \/ \E t \in TickInputs : SetTickSizeValid(t)
    \/ \E t \in TickInputs : SetTickSizeInvalid(t)
    \/ RelockThrows
    \/ ToggleAutoPrint

SpecBook == InitBook /\ [][NextBook]_vars

\* the order book with the CLI user changing the tick size while the periodic
\* snapshot thread runs; the snapshots have levels that merge under a coarser
\* tick
TickThreads == {"main", "api"}

NextTick ==
    \/ Start
    \/ SpawnThreads
    \/ \E t \in TickThreads : FetchFail(t)
    \/ \E t \in TickThreads : \E s \in TickSnapshots : FetchResponse(t, s)
    \/ \E t \in TickThreads : InstallSnapshot(t)
    \/ \E t \in TickThreads : PrintOrderbook(t)
    \/ \E t \in TickThreads : SweepStaleBids(t)
    \/ ApiPeriodic
    \/ \E t \in AllTickInputs : SetTickSizeValid(t)
    \/ \E t \in AllTickInputs : SetTickSizeInvalid(t)
    \/ RelockThrows
    \/ ToggleAutoPrint

SpecTick == InitBook /\ [][NextTick]_vars


\* start(), the threads, the periodic snapshots, loss of the connection and stop()
NextStop ==
    \/ Start
    \/ SpawnThreads
    \/ \E t \in TickThreads : FetchFail(t)
    \/ \E t \in TickThreads : \E s \in TickSnapshots : FetchResponse(t, s)
    \/ \E t \in TickThreads : InstallSnapshot(t)
    \/ \E t \in TickThreads : PrintOrderbook(t)
    \/ \E t \in TickThreads : SweepStaleBids(t)
    \/ ApiPeriodic
    \/ WsConnectionLost
    \/ \E t \in {"ws", "api"} : ThreadReturns(t)
    \/ StopCalled
    \/ StopJoins

SpecStop == InitBook /\ [][NextStop]_vars


\* the book fed with well-formed and malformed snapshots and depth updates
MsgThreads == {"main", "ws"}

NextMalformed ==
    \/ Start
    \/ SpawnThreads
    \/ \E t \in MsgThreads : FetchFail(t)
    \/ \E t \in MsgThreads : \E s \in Snapshots : FetchResponse(t, s)
    \/ \E t \in MsgThreads : InstallSnapshot(t)
    \/ \E t \in MsgThreads : PrintOrderbook(t)
    \/ \E t \in MsgThreads : SweepStaleBids(t)
    \/ \E d \in WellFormedDiffs \cup DiffsWithoutU : WsReceive(d)
    \/ WsSkipOld
    \/ WsAccept
    \/ WsGap
    \/ WsApply
    \/ \E t \in MsgThreads : \E s \in Snapshots : \E side \in {"bids", "asks"} :
         \E k \in 1..3 : InstallMalformedSnapshot(t, s, side, k)
    \/ \E d \in WellFormedDiffs : \E side \in {"bids", "asks"} :
         \E k \in 1..2 : ApplyMalformedDiff(d, side, k)

SpecMalformed == InitBook /\ [][NextMalformed]_vars


\* the book with calculate_all_metrics taken step by step: the periodic
\* snapshot thread computes metrics while the websocket thread has diffs
MetricSnapshots == { s \in Snapshots : s.lastUpdateId = 100 }

MetricDiffs == { d \in WellFormedDiffs : d.u <= 101 }

NextMetrics ==
    \/ Start
    \/ SpawnThreads
    \/ \E t \in Threads : FetchFail(t)
    \/ \E t \in Threads : \E s \in MetricSnapshots : FetchResponse(t, s)
    \/ \E t \in Threads : InstallSnapshot(t)
    \/ \E t \in Threads : MetricsCopy(t)
    \/ \E t \in Threads : MetricsCompute(t)
    \/ \E t \in Threads : PrintAfterMetrics(t)
    \/ \E t \in Threads : SweepStaleBids(t)
    \/ \E d \in MetricDiffs : WsReceive(d)
    \/ WsSkipOld
    \/ WsAccept
    \/ WsGap
    \/ WsApply
    \/ ApiPeriodic

SpecMetrics == InitBook /\ [][NextMetrics]_vars


InitCodec ==
    /\ CodecInit
    /\ DispInit /\ LtIdle /\ IceInit /\ BookInit /\ RingIdle /\ MainIdle

NextCodec ==
    \/ CodecSerialize
    \/ CodecDeserialize
    \/ ConsumeOrderbookPayload

SpecCodec == InitCodec /\ [][NextCodec]_vars

InitIceberg == IceInit /\ BookInit /\ RingIdle /\ LtIdle /\ DispInit /\ CodecIdle /\ MainIdle

NextIceberg == \E update \in IcebergUpdates : ProcessUpdate(update)

SpecIceberg == InitIceberg /\ [][NextIceberg]_vars

InitTrades == LtInit /\ IceInit /\ BookInit /\ RingIdle /\ DispInit /\ CodecIdle /\ MainIdle

NextTrades == \E trade \in Trades : OnTrade(trade)

SpecTrades == InitTrades /\ [][NextTrades]_vars

InitFlow ==
    /\ lt_source = "liquidity_tracker_dual_mode" /\ TradeInit /\ FlowInit
    /\ IceInit /\ BookInit /\ RingIdle /\ DispInit /\ CodecIdle /\ MainIdle

NextFlow ==
    \E ts \in LtTimestamps : \E b \in LtBidLists : \E a \in LtAskLists :
        OnOrderBookUpdate(ts, b, a)

SpecFlow == InitFlow /\ [][NextFlow]_vars

\* the dual-mode tracker fed a book deeper than it tracks
NextDeepFlow ==
    \E ts \in DeepTimestamps : \E b \in DeepBidLists : \E a \in DeepAskLists :
        OnOrderBookUpdate(ts, b, a)

SpecDeepFlow == InitFlow /\ [][NextDeepFlow]_vars


\* the program as built: callback_ws and consume_ring_buffer run as threads
\* (src/main.cpp:60-64).  The consumer's ring is its own and nothing writes
\* to it, so its body read is never reached.
InitFeed == DispInit /\ CodecIdle /\ LtIdle /\ IceInit /\ BookInit /\ RingIdle /\ MainIdle

NextFeed ==
    \/ \E trade_msg \in FeedTrades : CallbackWsTrade(trade_msg)
    \/ \E j \in WireDepthUpdates : CallbackWsDepth(parse_orderbook_json(j))
    \/ CallbackWsIgnored
    \/ ReadHeader

SpecFeed == InitFeed /\ [][NextFeed]_vars

\* the consumer reading the ring a writer puts frames on
InitDispatch == DispInit /\ CodecIdle /\ LtIdle /\ IceInit /\ BookInit /\ RingIdle /\ MainIdle

NextDispatch ==
    \/ \E msg \in FrameMessages : BeginFrame(msg)
    \/ \E len \in 1..(HEADER_SIZE + BookHeaderSize + LevelSize) : WriteBytes(len)
    \/ ReadHeader
    \/ ReadBody

SpecDispatch == InitDispatch /\ [][NextDispatch]_vars


\* main with its four threads
InitMain == MainInit /\ DispInit /\ CodecIdle /\ LtIdle /\ IceInit /\ BookInit /\ RingIdle

NextMain ==
    \/ WsStart
    \/ WsConnectFails
    \/ WsConnected
    \/ WsLoopTest
    \/ \E trade_msg \in MainTrades : WsReceiveTrade(trade_msg)
    \/ \E book \in MainBooks : WsReceiveDepth(book)
    \/ WsServiceReturns
    \/ ConsumerIterates
    \/ ConsumerExits
    \/ IcebergPop
    \/ IcebergProcess
    \/ LiquidityTryPopUpdate
    \/ LiquidityOnUpdate
    \/ LiquidityTryPopTrade
    \/ LiquidityOnTrade
    \/ LiquidityExitTest
    \/ MainStopConnector
    \/ MainJoinWs
    \/ MainJoinConsumer
    \/ MainCloseQueue
    \/ MainJoinIceberg
    \/ MainJoinLiquidity

SpecMain == InitMain /\ [][NextMain]_vars


\* the steps of each thread that the scheduler eventually runs; the arrival
\* of a message and the key press that ends std::cin.get() are not among them
WsThread == WsStart \/ WsConnectFails \/ WsConnected \/ WsLoopTest \/ WsServiceReturns

ConsumerThread == ConsumerIterates \/ ConsumerExits

IcebergThread == IcebergPop \/ IcebergProcess

LiquidityThread ==
    \/ LiquidityTryPopUpdate \/ LiquidityOnUpdate
    \/ LiquidityTryPopTrade \/ LiquidityOnTrade \/ LiquidityExitTest

MainShutdown ==
    \/ MainJoinWs \/ MainJoinConsumer \/ MainCloseQueue
    \/ MainJoinIceberg \/ MainJoinLiquidity

FairSpecMain ==
    /\ SpecMain
    /\ WF_vars(WsThread) /\ WF_vars(ConsumerThread) /\ WF_vars(IcebergThread)
    /\ WF_vars(LiquidityThread) /\ WF_vars(MainShutdown)

\* ========================================================================
\* Properties
\* ========================================================================

\* ---- C1 ----------------------------------------------------------------
\* C1: with one producer in write and one consumer in read, interleaved at
\* the index loads, byte copies and index stores, the bytes read so far (the
\* returned ones and those already copied out by the read in progress) are
\* at every moment a prefix of the bytes accepted by completed writes.  The
\* offered bytes are pairwise distinct, so a lost, duplicated, reordered,
\* unpublished or overwritten byte breaks the prefix.
C1_ReadIsPrefixOfWritten == IsPrefix(h_returned \o r_out, h_accepted)

\* a read sequence longer than the ring (the indices wrapped) while a write
\* is in the middle of its copy
C1_Witness ==
    /\ capacity_ >= 2
    /\ Len(h_returned) > capacity_
    /\ w_pc = "copy" /\ w_i > 0
    /\ r_pc = "copy"

\* ---- C2 ----------------------------------------------------------------
\* C2: write on a writable ring accepts exactly
\* min(len, C - 1 - ((head - tail) mod C)) bytes, returns that count, advances
\* head by it modulo C and never changes tail; read returns exactly
\* min(max_len, (head - tail) mod C), advances tail by it modulo C and never
\* changes head.  head and tail are the indices as the call loaded them.
C2_WriteReadCounts ==
    [][ /\ WriteStoreHead =>
             LET n == Min(Len(w_data), capacity_ - 1 - ((head_ - w_tail) % capacity_))
             IN  /\ w_ret' = n
                 /\ Len(h_accepted') = Len(h_accepted) + n
                 /\ head_' = (head_ + n) % capacity_
        /\ ReadStoreTail =>
             LET n == Min(r_max_len, (r_head - tail_) % capacity_)
             IN  /\ r_ret' = n
                 /\ Len(h_returned') = Len(h_returned) + n
                 /\ tail_' = (tail_ + n) % capacity_
        /\ (WriteStep /\ ~read_only_) => tail_' = tail_
        /\ ReadStep => head_' = head_
      ]_vars

\* a write that was cut short by a nearly full ring and a read that was cut
\* short by a nearly empty one
C2_Witness ==
    /\ w_pc = "idle" /\ 0 < w_ret /\ w_ret < Len(w_data)
    /\ r_pc = "idle" /\ 0 < r_ret /\ r_ret < r_max_len

\* ---- C3 ----------------------------------------------------------------
\* C3: a depth diff writes its levels only if, against last_update_id at the
\* moment of the write, first_update_id <= last_update_id + 1 <= diff's
\* last_update_id.
C3_WriteOnlyIfApplicable ==
    [][ (pc["ws"] = "apply" /\ pc'["ws"] = "print") =>
            (ws_msg.U <= last_update_id + 1 /\ last_update_id + 1 <= ws_msg.u)
      ]_vars

\* ---- C4 ----------------------------------------------------------------
\* C4: two diffs applied one after the other with no snapshot between them
\* are contiguous: the second one's first_update_id is the first one's
\* last_update_id + 1; a diff that is not contiguous with the last applied
\* one is not applied and makes the ws thread fetch a snapshot.
C4_AdjacentDiffsContiguous ==
    [][ /\ (pc["ws"] = "apply" /\ pc'["ws"] = "print" /\ h_prev_u # 0) =>
               ws_msg.U = h_prev_u + 1
        /\ (pc["ws"] = "check" /\ pc'["ws"] # "check" /\ h_prev_u # 0
               /\ h_prev_u = current_last_id /\ ws_msg.U # h_prev_u + 1) =>
               pc'["ws"] = "fetch"
      ]_vars

\* ---- C5 ----------------------------------------------------------------
\* C5: last_update_id never decreases.
C5_LastUpdateIdMonotonic == [][last_update_id' >= last_update_id]_vars

\* the indices of the listed levels that round to price p
ListedAt(levels, p) == { i \in 1..Len(levels) : round_to_tick_size(levels[i][1]) = p }

\* a price some listed level rounds to holds the quantity of the last such
\* level, or is absent when that quantity is 0; every other price is as before
DiffEffect(old, new, levels) ==
    \A p \in (DOMAIN old) \cup (DOMAIN new)
               \cup { round_to_tick_size(levels[i][1]) : i \in 1..Len(levels) } :
        IF ListedAt(levels, p) = {}
        THEN /\ (p \in DOMAIN new) <=> (p \in DOMAIN old)
             /\ p \in DOMAIN old => new[p] = old[p]
        ELSE LET l == levels[SetMax(ListedAt(levels, p))]
             IN  IF l[2] > 0 THEN p \in DOMAIN new /\ new[p] = l[2]
                             ELSE p \notin DOMAIN new

\* ---- C6 ----------------------------------------------------------------
\* the diff under check has a gap to the book the check saw
GapSeen == pc["ws"] = "check" /\ ws_msg.U > current_last_id + 1

\* the ws thread leaves the sequence check
Decided == pc["ws"] = "check" /\ pc'["ws"] # "check"

\* a gapped diff writes nothing and makes the ws thread fetch a snapshot
\* before it takes another diff
GapHandling ==
    /\ (GapSeen /\ Decided) =>
           /\ pc'["ws"] = "fetch"
           /\ bids' = bids /\ asks' = asks /\ last_update_id' = last_update_id
    /\ (pc["ws"] = "fetch") => pc'["ws"] \in {"fetch", "install", "idle"}
    /\ (pc'["ws"] = "check" /\ pc["ws"] # "check") => pc["ws"] = "idle"

\* the accepted diff is written in full and becomes the book's update id
AppliedNormally ==
    (pc["ws"] = "apply" /\ pc'["ws"] # "apply") =>
        /\ pc'["ws"] = "print"
        /\ last_update_id' = ws_msg.u
        /\ DiffEffect(bids, bids', ws_msg.bids)
        /\ DiffEffect(asks, asks', ws_msg.asks)

\* C6 as stated: a gapped diff writes nothing and triggers a fetch before any
\* later diff, and once the fetched snapshot is installed the next diff with
\* first_update_id <= snapshot_update_id + 1 <= last_update_id is applied.
C6_GapResyncOriginal ==
    [][ /\ GapHandling
        /\ AppliedNormally
        /\ (Decided /\ h_resync # 0 /\ Bridges(ws_msg, h_resync)) => pc'["ws"] = "apply"
      ]_vars

\* C6 as amended: a gapped diff writes nothing and triggers a fetch before
\* any later diff, and once the fetched snapshot is installed the next diff
\* with first_update_id <= snapshot_update_id + 1 <= last_update_id is applied
\* provided the book's last_update_id is still the snapshot's when the diff
\* is checked (no other snapshot was installed in between).
C6_GapResyncAmended ==
    [][ /\ GapHandling
        /\ AppliedNormally
        /\ (Decided /\ h_resync # 0 /\ Bridges(ws_msg, h_resync)
              /\ current_last_id = h_resync) => pc'["ws"] = "apply"
      ]_vars

\* the diff that bridged a gap-triggered snapshot has been applied
C6_Witness == h_last_op = "resync_diff" /\ h_prev_u = last_update_id

\* ---- C7 ----------------------------------------------------------------
\* C7: every stored bid and ask level has a quantity > 0.
C7_StoredQuantitiesPositive ==
    /\ \A p \in DOMAIN bids : bids[p] > 0
    /\ \A p \in DOMAIN asks : asks[p] > 0

\* a book that went through a snapshot, a diff and a re-aggregation at 0.1
C7_Witness ==
    /\ pc["main"] = "relock" /\ tick_size = 100
    /\ h_prev_u # 0
    /\ DOMAIN bids # {} /\ DOMAIN asks # {}

\* ---- C8 ----------------------------------------------------------------
\* C8: when no handler is running and no snapshot fetch is under way, a book
\* with both sides non-empty has its best bid strictly below its best ask.
C8_BookNeverCrossed ==
    ( /\ pc["main"] = "cli" /\ pc["ws"] = "idle" /\ pc["api"] = "idle"
      /\ DOMAIN bids # {} /\ DOMAIN asks # {} )
    => BestBid(bids) < BestAsk(asks)

\* ---- C9 ----------------------------------------------------------------
ScenarioADiff ==
    [U |-> 101, u |-> 101, bids |-> << <<9990, 0>> >>, asks |-> << <<10020, 6>> >>]

Positive(levels) == { i \in 1..Len(levels) : levels[i][2] > 0 }

\* the side holds exactly the rounded prices of the levels with quantity > 0,
\* each with the quantity of the last such level listed at it
SnapshotEffect(new, levels) ==
    /\ DOMAIN new = { round_to_tick_size(levels[i][1]) : i \in Positive(levels) }
    /\ \A p \in DOMAIN new :
          new[p] = levels[SetMax(Positive(levels) \cap ListedAt(levels, p))][2]

RECURSIVE SumOver(_, _)
SumOver(m, S) ==
    IF S = {} THEN 0
    ELSE LET p == CHOOSE x \in S : TRUE IN m[p] + SumOver(m, S \ {p})

\* the old levels that round to price q at tick t
RoundingTo(old, q, t) == { p \in DOMAIN old : RoundTo(p, t) = q }

\* the new side holds, at each rounded price, the sum of the old levels that
\* round to it, and nothing else; the side's total is unchanged
ReaggregationEffect(old, new, t) ==
    /\ DOMAIN new = { RoundTo(p, t) : p \in DOMAIN old }
    /\ \A q \in DOMAIN new : new[q] = SumOver(old, RoundingTo(old, q, t))
    /\ SumOver(new, DOMAIN new) = SumOver(old, DOMAIN old)

\* C11: set_tick_size(t) with an allowed t keeps the sum of the stored
\* quantities of each side and stores at each new rounded price the sum of
\* the old levels that round to it; Scenario F: bids {10.00:1, 10.01:2,
\* 10.02:3} at tick 0.1 give {10.00:6}.
C11_TickReaggregationSums ==
    [][ (pc["main"] = "cli" /\ pc'["main"] = "relock") =>
          /\ tick_size' \in available_tick_sizes
          /\ ReaggregationEffect(bids, bids', tick_size')
          /\ ReaggregationEffect(asks, asks', tick_size')
          /\ (bids = (10000 :> 2 @@ 10010 :> 4 @@ 10020 :> 6) /\ tick_size' = 100)
                => bids' = (10000 :> 12)
      ]_vars

\* Scenario F's book after set_tick_size(0.1): three bids merged into one,
\* the asks merged into 10.00 and 10.10
C11_Witness ==
    /\ h_last_op = "tick" /\ tick_size = 100
    /\ bids = (10000 :> 12)
    /\ asks = (10000 :> 4 @@ 10100 :> 5)

\* ---- C12 ---------------------------------------------------------------
\* the quantity observed before observation n at a price (0 before the first)
PrevObserved(seq, n) == IF n = 1 THEN 0 ELSE seq[n - 1]

\* observation n is a partial decrease: 0 < qty < last_quantity
PartialDecreaseAt(seq, n) == 0 < seq[n] /\ seq[n] < PrevObserved(seq, n)

\* the number of consecutive partial decreases that end at observation n
TrailingDecreases(seq, n) ==
    SetMax({ k \in 0..n : \A j \in (n - k + 1)..n : PartialDecreaseAt(seq, j) })

\* the observations at which a detection is due: every third one of a run of
\* consecutive partial decreases
DetectionsDue(seq) ==
    { n \in 1..Len(seq) :
        TrailingDecreases(seq, n) > 0 /\ TrailingDecreases(seq, n) % 3 = 0 }

\* C12: at every price the detector has emitted once for every third
\* consecutive observation with 0 < qty < last_quantity, its counter is the
\* number of such consecutive observations since it was last zero (zero after
\* an emission, after qty >= last_quantity or qty <= 0, and after the first
\* observation), and last_quantity is the last observed quantity.
C12_IcebergCounterRule ==
    /\ DOMAIN book_state_ = DOMAIN h_obs /\ DOMAIN h_emitted = DOMAIN h_obs
    /\ \A p \in DOMAIN h_obs :
         LET seq == h_obs[p] IN
         /\ Len(seq) > 0
         /\ book_state_[p].last_quantity = seq[Len(seq)]
         /\ book_state_[p].iceberg_counter = TrailingDecreases(seq, Len(seq)) % 3
         /\ h_emitted[p] = Cardinality(DetectionsDue(seq))

\* quantities 5, 3, 2, 1 at the ask price: one detection at the fourth
\* observation, counter back at zero; the bid price has seen a refill
C12_Witness ==
    /\ IcebergAskPrice \in DOMAIN h_obs /\ IcebergBidPrice \in DOMAIN h_obs
    /\ h_obs[IcebergAskPrice] = <<10, 6, 4, 2>>
    /\ h_emitted[IcebergAskPrice] = 1
    /\ book_state_[IcebergAskPrice].iceberg_counter = 0
    /\ h_obs[IcebergBidPrice] = <<4, 10>>

\* ---- C13 ---------------------------------------------------------------
\* the observations of the sequence that are partial decreases
PartialDecreases(seq) == { n \in 1..Len(seq) : PartialDecreaseAt(seq, n) }

\* C13: after the quantities 5, 3, 5, 2, 5, 1 at the ask price the detector
\* has emitted exactly one event and its counter is zero; in general every
\* third partial decrease at a price is a detection, refills in between or not.
C13_ThirdDecreaseAcrossRefills ==
    /\ ( /\ IcebergAskPrice \in DOMAIN h_obs
         /\ h_obs[IcebergAskPrice] = <<10, 6, 10, 4, 10, 2>> )
       => ( /\ h_emitted[IcebergAskPrice] = 1
            /\ book_state_[IcebergAskPrice].iceberg_counter = 0 )
    /\ \A p \in DOMAIN h_obs :
         h_emitted[p] = Cardinality(PartialDecreases(h_obs[p])) \div 3

\* Scenario C's observations have been made
C13_ScenarioCSeen ==
    /\ IcebergAskPrice \in DOMAIN h_obs
    /\ h_obs[IcebergAskPrice] = <<10, 6, 10, 4, 10, 2>>
    /\ h_emitted[IcebergAskPrice] = 0

\* ---- C14 ---------------------------------------------------------------
\* the indices of the trades of one side
SideTrades(is_buy) == { i \in 1..Len(h_trades) : h_trades[i].is_buy = is_buy }

\* the indices of the closures of one side
SideClosures(is_buy) == { i \in 1..Len(h_closures) : h_closures[i].is_buy = is_buy }

RECURSIVE NotionalOf(_)
NotionalOf(S) ==
    IF S = {} THEN 0
    ELSE LET i == CHOOSE x \in S : TRUE
         IN  Notional(h_trades[i]) + NotionalOf(S \ {i})

SideThreshold(is_buy) == IF is_buy THEN buy_bucket_size_ ELSE sell_bucket_size_

\* C14: when the notional traded on a side adds up to k times the side's
\* threshold (k >= 1), exactly k closures have been emitted on that side.
C14_ClosuresPerThreshold ==
    \A is_buy \in BOOLEAN :
        LET total == NotionalOf(SideTrades(is_buy))
        IN  (total > 0 /\ total % SideThreshold(is_buy) = 0)
              => Cardinality(SideClosures(is_buy)) = total \div SideThreshold(is_buy)

\* ---- C15 ---------------------------------------------------------------
\* C15: after every onTrade both accumulators are below their thresholds; a
\* trade that brings its side's accumulator to the threshold or above emits
\* exactly one closure for that side and zeroes that bucket's accumulator,
\* same-side flow, opposite-side flow and start timestamp; any other trade
\* emits nothing; the other side's accumulator is unchanged.
C15_AccumBelowThreshold ==
    [][ (h_trades' # h_trades) =>
          LET trade == h_trades'[Len(h_trades')]
              n == trade.price * trade.quantity
          IN  /\ buy_accum_usd_' < buy_bucket_size_
              /\ sell_accum_usd_' < sell_bucket_size_
              /\ trade.is_buy =>
                   /\ sell_accum_usd_' = sell_accum_usd_
                   /\ IF buy_accum_usd_ + n >= buy_bucket_size_
                      THEN /\ Len(h_closures') = Len(h_closures) + 1
                           /\ h_closures'[Len(h_closures')].is_buy
                           /\ SubSeq(h_closures', 1, Len(h_closures)) = h_closures
                           /\ buy_accum_usd_' = 0 /\ buy_bucket_buyflow_' = 0
                           /\ buy_bucket_sellflow_' = 0 /\ buy_start_ts_ns_' = 0
                      ELSE /\ h_closures' = h_closures
                           /\ buy_accum_usd_' = buy_accum_usd_ + n
              /\ ~trade.is_buy =>
                   /\ buy_accum_usd_' = buy_accum_usd_
                   /\ IF sell_accum_usd_ + n >= sell_bucket_size_
                      THEN /\ Len(h_closures') = Len(h_closures) + 1
                           /\ ~h_closures'[Len(h_closures')].is_buy
                           /\ SubSeq(h_closures', 1, Len(h_closures)) = h_closures
                           /\ sell_accum_usd_' = 0 /\ sell_bucket_sellflow_' = 0
                           /\ sell_bucket_buyflow_' = 0 /\ sell_start_ts_ns_' = 0
                      ELSE /\ h_closures' = h_closures
                           /\ sell_accum_usd_' = sell_accum_usd_ + n
      ]_vars

\* the last trade closed the buy bucket, which had seen sell flow, while the
\* sell bucket stays part-filled
C15_Witness ==
    /\ lt_source = "liquidity_tracker"
    /\ h_closures # << >>
    /\ h_closures[Len(h_closures)].trade = Len(h_trades)
    /\ h_closures[Len(h_closures)].is_buy
    /\ buy_accum_usd_ = 0 /\ buy_bucket_sellflow_ = 0 /\ buy_start_ts_ns_ = 0
    /\ sell_accum_usd_ > 0
    /\ \E i \in SideTrades(FALSE) : \E j \in SideTrades(TRUE) : j < i

\* ---- C16 ---------------------------------------------------------------
\* the trade at which the side's previous closure happened, 0 if none
PreviousClosureTrade(c) ==
    LET before == { h_closures[i].trade : i \in { j \in 1..Len(h_closures) :
                        /\ h_closures[j].is_buy = h_closures[c].is_buy
                        /\ h_closures[j].trade < h_closures[c].trade } }
    IN  IF before = {} THEN 0 ELSE SetMax(before)

\* the first trade accumulated into the bucket that closure c closed
FirstTradeOf(c) ==
    SetMin({ i \in SideTrades(h_closures[c].is_buy) : i > PreviousClosureTrade(c) })

ScenarioDTrades ==
    << [price |-> TradePrice, quantity |-> 4, timestamp_ns |-> 0, is_buy |-> TRUE],
       [price |-> TradePrice, quantity |-> 3, timestamp_ns |-> 100, is_buy |-> TRUE],
       [price |-> TradePrice, quantity |-> 5, timestamp_ns |-> 300, is_buy |-> TRUE] >>

\* C16: the duration of every closure is the closing trade's timestamp minus
\* the timestamp of the first trade accumulated into the bucket since its
\* last reset, timestamp 0 included; Scenario D closes once, at the third
\* trade, with a duration of 300 ms.
C16_ClosureDuration ==
    /\ \A c \in 1..Len(h_closures) :
         h_closures[c].duration_ns =
             h_trades[h_closures[c].trade].timestamp_ns
               - h_trades[FirstTradeOf(c)].timestamp_ns
    /\ (h_trades = ScenarioDTrades) =>
         ( /\ Len(h_closures) = 1
           /\ h_closures[1].trade = 3
           /\ h_closures[1].duration_ns = 300 )


\* Scenario D's three trades have been processed
C16_ScenarioDSeen == h_trades = ScenarioDTrades /\ Len(h_closures) = 1


\* ------------------------------------------------------------------------
\* C17: for each price whose stored volume prev > 0 falls to cur < prev in
\* the next book update, (prev - cur) * price is credited to that side's
\* cancel bucket if and only if prev - cur >= 0.3 * prev, the boundary
\* prev - cur = 0.3 * prev included, and nothing else is credited; the bid
\* (10.00, 10) followed by (10.00, 2) credits 80 USD to the cancel-buy bucket.
\* ------------------------------------------------------------------------
\* the credits the rule asks for on one side
CancelsDue(prev, cur, is_buy) ==
    { [is_buy |-> is_buy, price |-> p, cancel_volume |-> (prev[p] - cur[p]) * p] :
        p \in { q \in DOMAIN prev \cap DOMAIN cur :
                  /\ prev[q] > 0 /\ cur[q] < prev[q]
                  /\ 10 * (prev[q] - cur[q]) >= 3 * prev[q] } }

CreditsMade == { h_credits[i] : i \in 1..Len(h_credits) }

C17_CancelThreshold ==
    h_updates > 0 =>
        /\ CreditsMade = CancelsDue(h_prev_bids, last_bids_volume_, TRUE)
                           \cup CancelsDue(h_prev_asks, last_asks_volume_, FALSE)
        /\ (h_prev_bids = (LtBidPrice :> 10) /\ last_bids_volume_ = (LtBidPrice :> 2)
              => [is_buy |-> TRUE, price |-> LtBidPrice, cancel_volume |-> 80000]
                   \in CreditsMade)

\* Scenario E has run: the 80 USD are in the cancel-buy bucket
C17_ScenarioESeen ==
    /\ h_updates = 2
    /\ h_prev_bids = (LtBidPrice :> 10) /\ last_bids_volume_ = (LtBidPrice :> 2)
    /\ h_credits = << [is_buy |-> TRUE, price |-> LtBidPrice, cancel_volume |-> 80000] >>
    /\ cancel_buy_.accum = 80000

\* a decrease of exactly 30% has been processed
C17_BoundarySeen ==
    /\ h_prev_bids = (LtBidPrice :> 10) /\ last_bids_volume_ = (LtBidPrice :> 7)
    /\ h_credits = << >>


\* ------------------------------------------------------------------------
\* C18: every trade and depth update the feed client parses is written to
\* the Ring Bus as a frame, reaches the consumer queues only through the
\* dispatcher's pushes, and is pushed to each of its queues no more than once.
\* ------------------------------------------------------------------------
PushesTo(queue) == SelectSeq(h_pushes, LAMBDA push : push.queue = queue)

ParsedOf(e) == SelectSeq(h_parsed, LAMBDA msg : msg.e = e)

C18_ThroughRingOnly ==
    /\ h_frames = h_parsed
    /\ \A i \in 1..Len(h_pushes) : h_pushes[i].by = "consume_ring_buffer"
    /\ Len(PushesTo("trade_queue")) <= Len(ParsedOf("trade"))
    /\ Len(PushesTo("liquidity_queue")) <= Len(ParsedOf("depthUpdate"))
    /\ Len(PushesTo("iceberg_queue")) <= Len(ParsedOf("depthUpdate"))

\* a parsed trade is in trade_queue while both rings are empty and the
\* dispatcher has read nothing
C18_BypassSeen ==
    /\ Len(h_parsed) = 1 /\ h_parsed[1].e = "trade"
    /\ trade_queue = h_parsed
    /\ mmap_buffer = << >> /\ buffer = << >> /\ h_headers = << >>


\* ------------------------------------------------------------------------
\* C19: for every complete frame the dispatcher reads, a TRADE frame results
\* in exactly one push, of that trade to trade_queue, an ORDERBOOK frame in
\* exactly one push of that update to iceberg_queue and one to
\* liquidity_queue, and the pushes to each queue occur in the order in which
\* the frames were written to the ring.
\* ------------------------------------------------------------------------
FramePushes(frame) == SelectSeq(h_pushes, LAMBDA push : push.frame = frame)

PushesAsWritten(queue) ==
    LET pushes == SelectSeq(PushesTo(queue), LAMBDA push : push.frame # 0)
    IN  \A i, j \in 1..Len(pushes) : i < j => pushes[i].frame < pushes[j].frame

Items(pushes) == [i \in 1..Len(pushes) |-> pushes[i].item]

C19_FrameRouting ==
    /\ \A i \in 1..Len(h_reads) :
         LET frame == h_reads[i].frame
             pushes == FramePushes(frame)
         IN  frame # 0 =>
               IF h_frames[frame].e = "trade"
               THEN pushes = << PushOf("trade_queue", h_frames[frame],
                                       "consume_ring_buffer", frame) >>
               ELSE /\ Len(pushes) = 2
                    /\ { pushes[1], pushes[2] }
                         = { PushOf(queue, h_frames[frame], "consume_ring_buffer", frame) :
                               queue \in {"iceberg_queue", "liquidity_queue"} }
    /\ \A queue \in {"trade_queue", "iceberg_queue", "liquidity_queue"} :
         PushesAsWritten(queue)
    /\ trade_queue = Items(PushesTo("trade_queue"))
    /\ iceberg_queue = Items(PushesTo("iceberg_queue"))
    /\ liquidity_queue = Items(PushesTo("liquidity_queue"))

\* two different depth updates were written as frames and read completely:
\* both book queues hold them in the order written
C19_Witness ==
    /\ Len(h_reads) = 2 /\ h_reads[1].frame = 1 /\ h_reads[2].frame = 2
    /\ h_frames[1].e = "depthUpdate" /\ h_frames[2].e = "depthUpdate"
    /\ h_frames[1] # h_frames[2]
    /\ iceberg_queue = h_frames /\ liquidity_queue = h_frames
    /\ trade_queue = << >>

\* ------------------------------------------------------------------------
\* C20: after a short header read, a short body read or an unknown type tag
\* the dispatcher discards ring bytes up to the next valid type tag: every 5
\* bytes it interprets as a header are the header of a frame written by the
\* producer, never payload bytes.
\* ------------------------------------------------------------------------
IsFrameHeader(bytes) ==
    \A k \in 1..HEADER_SIZE : bytes[k].o = k - 1 /\ bytes[k].f = bytes[1].f

C20_HeadersAreHeaders ==
    \A i \in 1..Len(h_headers) : IsFrameHeader(h_headers[i])

\* a header read has taken five bytes that begin inside a frame
C20_MisalignedSeen ==
    /\ Len(h_headers) = 1
    /\ h_headers[1][1].o # 0


\* ------------------------------------------------------------------------
\* C21: every item pushed to trade_queue, liquidity_queue or iceberg_queue
\* has been popped and processed by the queue's consumer thread when that
\* thread has exited; the iceberg thread exits only with its queue closed
\* and empty, the liquidity thread only with both its queues closed and empty.
\* ------------------------------------------------------------------------
Drained(queue_name, queue) ==
    /\ closed[queue_name]
    /\ queue = << >>
    /\ h_processed[queue_name] = Items(PushesTo(queue_name))

ShutdownStarted == main_pc # "cin_get"

AllJoined ==
    /\ main_pc = "done"
    /\ ws_pc = "exited" /\ consumer_pc = "exited"
    /\ iceberg_pc = "exited" /\ liquidity_pc = "exited"

C22_ShutdownTerminates == ShutdownStarted ~> AllJoined

\* connector.stop() ran before connector.start() stored running = true: the
\* feed thread is in its loop with running set and main waits in its join
C22_StuckSeen ==
    /\ main_pc = "join_ws"
    /\ ws_pc = "service" /\ running

\* a shutdown that completes
C22_CleanShutdownSeen == AllJoined /\ Len(h_parsed) >= 1


\* ------------------------------------------------------------------------
\* C23: whenever stop() has returned after start(), the websocket thread and
\* the periodic snapshot thread have both been joined, also when a
\* connection callback had set is_running to false before stop() was called.
\* ------------------------------------------------------------------------
C23_StopJoinsThreads == pc["main"] = "stopped" => joined = {"ws", "api"}

\* stop() has returned with both threads joined
C23_JoinedSeen == pc["main"] = "stopped" /\ joined = {"ws", "api"}


\* ------------------------------------------------------------------------
\* C24: a snapshot or depth update that is malformed or lacks a required
\* field, including one with a level whose price or quantity is not a
\* number, leaves bids, asks and last_update_id as they were.
\* ------------------------------------------------------------------------
C24_MalformedAllOrNothing ==
    [][ (\/ h_malformed' # h_malformed
         \/ pc["ws"] = "apply" /\ pc'["ws"] # "apply" /\ ws_msg.U = 0)
          => /\ bids' = bids /\ asks' = asks
             /\ last_update_id' = last_update_id ]_vars

\* a snapshot whose second bid is not a number has replaced a book of two
\* bids and one ask by its first bid alone
C24_PartialSnapshotSeen ==
    /\ h_last_op = "malformed_snapshot"
    /\ DOMAIN bids = {10000} /\ asks = EmptyMap
    /\ last_update_id = 102


\* ------------------------------------------------------------------------
\* C25: every read and mutation of the bid and ask maps is made by a thread
\* holding orderbook_mutex: while one thread holds the mutex (set_tick_size,
\* which has re-aggregated and writes no more), no other thread erases or
\* stores a level.
\* ------------------------------------------------------------------------
C25_MapsChangeUnderMutex ==
    [][ orderbook_mutex = "main" => bids' = bids /\ asks' = asks ]_vars

\* the api thread is about to run print_orderbook's erase loop with a stale
\* bid to erase while set_tick_size holds orderbook_mutex
C25_SweepWhileLockedSeen ==
    /\ orderbook_mutex = "main"
    /\ pc["api"] = "sweep"
    /\ SweepBelow(bids, sweep_best["api"]) # bids


\* ------------------------------------------------------------------------
\* C26: the metric path holds orderbook_mutex only while it copies the
\* levels of each side: while a thread computes the sums from its copies
\* and writes the metric cache, orderbook_mutex is free, so that a diff
\* waiting at the locked block of process_ws_update can be applied.
\* ------------------------------------------------------------------------
C26_ComputeOutsideMutex ==
    \A t \in Threads : pc[t] = "compute" => orderbook_mutex = "free"

\* the api thread is computing the sums of a copied book while the
\* websocket thread has a diff ready for its locked block
C26_DiffWaitsSeen ==
    /\ pc["api"] = "compute"
    /\ level_copy["api"].bid_copy # << >>
    /\ pc["ws"] = "apply"


\* ------------------------------------------------------------------------
\* C27: deserialize_trade(serialize_trade(t)) equals t for every trade t;
\* deserialize_orderbook(serialize_orderbook(b)) has the timestamp_ns, the
\* last_update_id and the bid and ask levels of b, in the same order.
\* ------------------------------------------------------------------------
C27_RoundTrip ==
    codec_pc = "done" =>
        IF codec_msg.e = "trade"
        THEN codec_out = codec_msg
        ELSE /\ codec_out.e = "depthUpdate"
             /\ codec_out.timestamp_ns = codec_msg.timestamp_ns
             /\ codec_out.last_update_id = codec_msg.last_update_id
             /\ codec_out.bids = codec_msg.bids
             /\ codec_out.asks = codec_msg.asks

\* a depth update with two different bids and an ask has made the round trip
C27_BookRoundTripSeen ==
    /\ codec_pc = "done"
    /\ codec_msg.e = "depthUpdate"
    /\ Len(codec_msg.bids) = 2 /\ codec_msg.bids[1] # codec_msg.bids[2]
    /\ Len(codec_msg.asks) = 1 /\ codec_msg.asks[1] # codec_msg.bids[1]


\* ------------------------------------------------------------------------
\* C28: while a snapshot request is outstanding (issued by any thread and
\* not yet installed), no incoming diff is written to the book; the diffs
\* of that window are held and those newer than the snapshot are applied
\* after it is installed.
\* ------------------------------------------------------------------------
SnapshotOutstanding == \E t \in Threads : pc[t] \in {"fetch", "install"}

C28_NoDiffWrittenWhileOutstanding ==
    [][ SnapshotOutstanding => ~(pc["ws"] = "apply" /\ pc'["ws"] = "print") ]_vars

\* the api thread's periodic request is outstanding while the websocket
\* thread is at the locked block with a diff that will change the book
C28_DiffDuringRefetchSeen ==
    /\ pc["api"] = "fetch"
    /\ pc["ws"] = "apply"
    /\ orderbook_mutex = "free"
    /\ ApplyDiffSide(bids, ws_msg.bids) # bids


\* ------------------------------------------------------------------------
\* C29: a trade credits the opposite-side bucket's opposite-flow only if
\* that bucket is open; when it is not open (no start timestamp, nothing
\* accumulated) the credit is dropped.
\* ------------------------------------------------------------------------
LastTrade(trades) == trades[Len(trades)]

C29_CreditOnlyIfOpen ==
    [][ Len(h_trades') = Len(h_trades) + 1 =>
          /\ ( /\ LastTrade(h_trades').is_buy
               /\ sell_start_ts_ns_ = 0 /\ sell_accum_usd_ = 0 )
                 => sell_bucket_buyflow_' = sell_bucket_buyflow_
          /\ ( /\ ~LastTrade(h_trades').is_buy
               /\ buy_start_ts_ns_ = 0 /\ buy_accum_usd_ = 0 )
                 => buy_bucket_sellflow_' = buy_bucket_sellflow_
      ]_vars

\* the sell bucket has not been opened and holds buy flow all the same
C29_StaleCreditSeen ==
    /\ lt_source = "liquidity_tracker"
    /\ sell_start_ts_ns_ = 0 /\ sell_accum_usd_ = 0
    /\ \A i \in 1..Len(h_trades) : h_trades[i].is_buy
    /\ sell_bucket_buyflow_ > 0

\* ------------------------------------------------------------------------
\* C30: the ratio emitted at a trade bucket close is
\* flow_same / (flow_same + flow_opposite), flow_opposite being the notional
\* of the opposite-side trades received while the bucket was open; it is
\* strictly between 0 and 1 when there was such a trade.
\* ------------------------------------------------------------------------
\* the trades received while the bucket of closure c was open
WhileOpen(c) == FirstTradeOf(c)..h_closures[c].trade

FlowSame(c) ==
    NotionalOf({ i \in WhileOpen(c) : h_trades[i].is_buy = h_closures[c].is_buy })

FlowOpposite(c) ==
    NotionalOf({ i \in WhileOpen(c) : h_trades[i].is_buy # h_closures[c].is_buy })

C30_RatioAtClose ==
    \A c \in 1..Len(h_closures) :
        LET ratio == h_closures[c].ratio
        IN  /\ ratio[1] * (FlowSame(c) + FlowOpposite(c)) = ratio[2] * FlowSame(c)
            /\ FlowOpposite(c) > 0 => 0 < ratio[1] /\ ratio[1] < ratio[2]

\* a buy bucket has closed after a sell trade was received while it was open
C30_OppositeFlowSeen ==
    \E c \in 1..Len(h_closures) :
        /\ h_closures[c].is_buy
        /\ FlowOpposite(c) > 0
        /\ lt_source = "liquidity_tracker_dual_mode"


\* ------------------------------------------------------------------------
\* C31: in a book update only the levels whose quantity strictly increased
\* add delta_qty * price to the order-flow accumulator of their side; the
\* accumulator closes when it reaches the trade threshold of its side,
\* emitting ratio 1.0 and resetting accumulator and start timestamp, with at
\* most one order-flow closure per side per update.
\* ------------------------------------------------------------------------
\* delta_qty * price summed over the levels of cur that increased
IncreaseValue(prev, cur) ==
    SumOver([p \in DOMAIN cur |->
                IF cur[p] > PrevVolume(prev, p) THEN (cur[p] - PrevVolume(prev, p)) * p
                ELSE 0],
            DOMAIN cur)

\* the order-flow closures of one side emitted by the step
NewOrderClosures(before, after, is_buy) ==
    SelectSeq(SubSeq(after, Len(before) + 1, Len(after)),
              LAMBDA c : c.is_buy = is_buy)

OrderFlowRule(b, b_after, closures, value, threshold) ==
    IF value = 0
    THEN b_after = b /\ closures = << >>
    ELSE IF b.accum + value >= threshold
         THEN /\ b_after = [accum |-> 0, start_ts |-> 0]
              /\ Len(closures) = 1
              /\ closures[1].ratio = <<1, 1>>
              /\ closures[1].bucket_size = threshold
         ELSE /\ b_after.accum = b.accum + value
              /\ closures = << >>

C31_OrderFlowBuckets ==
    [][ h_updates' = h_updates + 1 =>
          /\ OrderFlowRule(order_buy_, order_buy_',
                 NewOrderClosures(h_order_closures, h_order_closures', TRUE),
                 IncreaseValue(last_bids_volume_, last_bids_volume_'),
                 1000 * buy_bucket_size_)
          /\ OrderFlowRule(order_sell_, order_sell_',
                 NewOrderClosures(h_order_closures, h_order_closures', FALSE),
                 IncreaseValue(last_asks_volume_, last_asks_volume_'),
                 1000 * sell_bucket_size_)
      ]_vars

\* asks of 2, 7 and 10 at 1000.00 reach the sell threshold exactly at the
\* third update, the bid having decreased on the way
C31_Witness ==
    /\ h_updates = 3
    /\ Len(h_order_closures) = 1
    /\ ~h_order_closures[1].is_buy /\ h_order_closures[1].update = 3
    /\ order_sell_ = [accum |-> 0, start_ts |-> 0]
    /\ h_prev_bids = (LtBidPrice :> 10) /\ last_bids_volume_ = (LtBidPrice :> 7)
    /\ order_buy_.accum = 100000


\* ------------------------------------------------------------------------
\* C32: for each book update, every price level whose stored quantity
\* differs from its quantity after the previous update, a level whose
\* quantity went to zero included, produces exactly one LiquidityChange with
\* volume_delta = new - old, the update's timestamp and the side flag; an
\* unchanged level produces none.
\* ------------------------------------------------------------------------
\* the changes the rule asks for on one side
ChangesDue(prev, cur, ts, is_bid) ==
    { [price |-> p, volume_delta |-> PrevVolume(cur, p) - PrevVolume(prev, p),
       timestamp_ns |-> ts, is_bid |-> is_bid] :
        p \in { q \in DOMAIN prev \cup DOMAIN cur :
                  PrevVolume(cur, q) # PrevVolume(prev, q) } }

ChangesMade == { h_changes[i] : i \in 1..Len(h_changes) }

C32_OneChangePerChangedLevel ==
    h_updates > 0 =>
        /\ ChangesMade = ChangesDue(h_prev_bids, last_bids_volume_, h_last_ts, TRUE)
                           \cup ChangesDue(h_prev_asks, last_asks_volume_, h_last_ts, FALSE)
        /\ Len(h_changes) = Cardinality(ChangesMade)

\* a bid that was stored is absent from the update: its quantity went to zero
C32_VanishedLevelSeen ==
    /\ h_updates > 0
    /\ h_prev_bids = (LtBidPrice :> 10) /\ last_bids_volume_ = EmptyMap
    /\ h_changes = << >>

\* an update with an increased bid and an unchanged ask has made one call
C32_ChangeSeen ==
    /\ h_prev_bids = (LtBidPrice :> 2) /\ last_bids_volume_ = (LtBidPrice :> 7)
    /\ h_prev_asks = last_asks_volume_ /\ last_asks_volume_ # EmptyMap
    /\ h_changes = << [price |-> LtBidPrice, volume_delta |-> 5,
                       timestamp_ns |-> h_last_ts, is_bid |-> TRUE] >>


\* ------------------------------------------------------------------------
\* C33: for each N in {2, 10, 20, all} the cached imbalance is
\* (B - A) / (A + B), A being the sum of price * qty over the N lowest-priced
\* asks and B over the N highest-priced bids of the book that was copied,
\* and 0 when A + B is not positive; hence it lies in [-1, 1] and is positive
\* exactly when B exceeds A.
\* ------------------------------------------------------------------------
LevelSet(levels) == { levels[i] : i \in 1..Len(levels) }

\* the levels with fewer than n levels below (asks) or above (bids) them
LowestLevels(S, n) == { l \in S : Cardinality({ k \in S : k[1] < l[1] }) < n }

HighestLevels(S, n) == { l \in S : Cardinality({ k \in S : k[1] > l[1] }) < n }

NotionalSum(S) == SumOver([l \in S |-> l[1] * l[2]], S)

ImbalanceRule(imbalance, A, B) ==
    /\ IF A + B > 0 THEN imbalance = <<B - A, A + B>> ELSE imbalance = <<0, 1>>
    /\ -imbalance[2] <= imbalance[1] /\ imbalance[1] <= imbalance[2]
    /\ imbalance[1] > 0 <=> B > A

C33_CopyIsBook ==
    [][ \A t \in Threads :
          (pc[t] = "print" /\ pc'[t] = "compute") =>
              /\ LevelSet(level_copy'[t].ask_copy) = { <<p, asks[p]>> : p \in DOMAIN asks }
              /\ LevelSet(level_copy'[t].bid_copy) = { <<p, bids[p]>> : p \in DOMAIN bids }
      ]_vars

UpdatesComplete ==
    \A t \in Threads : pc[t] \notin {"install", "apply", "print", "sweep"}

C34_NoStaleBids ==
    (UpdatesComplete /\ h_last_op \in {"snapshot", "snapshot_replace", "diff", "resync_diff"})
        => \A p \in DOMAIN bids : ~(100 * p < 95 * BestBid(bids))

\* with auto-print off a snapshot's bid at 9.00 stays under the best bid 10.00
C34_StaleBidSeen ==
    /\ UpdatesComplete
    /\ ~auto_print_enabled
    /\ h_last_op = "snapshot_replace"
    /\ 9000 \in DOMAIN bids /\ BestBid(bids) = 10000

\* with auto-print on the erase loop has removed the bid at 9.00
C34_SweptSeen ==
    /\ UpdatesComplete
    /\ auto_print_enabled
    /\ h_last_op = "snapshot"
    /\ bids = (10000 :> 2) /\ 10010 \in DOMAIN asks /\ asks[10010] = 2


\* ------------------------------------------------------------------------
\* C35: no thread blocks for ever on orderbook_mutex or metrics_mutex: every
\* call returns with the mutexes it acquired released, and no thread tries
\* to lock a mutex it already holds.
\* ------------------------------------------------------------------------
\* thread t stands at the lock of orderbook_mutex in calculate_all_metrics
\* while it holds that mutex
LocksHeldMutex(t) == pc[t] = "relock" /\ orderbook_mutex = t

C35_NoSelfRelock == \A t \in Threads : ~LocksHeldMutex(t)


\* ------------------------------------------------------------------------
\* C36: a BinanceConnector::stop() issued after start() has been invoked on
\* the feed thread makes the service loop of run() end: the running = false
\* of stop() is never overwritten by run() storing running = true.
\* ------------------------------------------------------------------------
C36_StopNotOverwritten ==
    [][ (main_pc # "cin_get" /\ ws_pc # "start") => ~(~running /\ running') ]_vars

\* stop() has stored false after start() stored true and before run() has
\* initiated the connection
C36_StopBetweenStoresSeen ==
    /\ main_pc = "join_ws"
    /\ ws_pc = "create"
    /\ ~running


\* ------------------------------------------------------------------------
\* C37: deserialize_orderbook never reads beyond the size bytes it was
\* given: for every header pair (bid_count, ask_count), those whose 32-bit
\* sum wraps included, it reports an error or reads at most size bytes and
\* returns exactly bid_count bids and ask_count asks.
\* ------------------------------------------------------------------------
C37_ReadsWithinSize ==
    codec_pc = "consumed" =>
        /\ codec_read <= Len(codec_data)
        /\ \/ codec_out.e \in {"runtime_error", "bad_alloc"}
           \/ /\ codec_out.e = "depthUpdate"
              /\ Len(codec_out.bids) = codec_data[3]
              /\ Len(codec_out.asks) = codec_data[4]

\* a payload of one bid and one ask has been deserialized whole
C37_PayloadReadSeen ==
    /\ codec_pc = "consumed"
    /\ codec_out.e = "depthUpdate"
    /\ Len(codec_out.bids) = 1 /\ Len(codec_out.asks) = 1
    /\ codec_read = Len(codec_data)

\* a header whose counts do not wrap and exceed the payload has been refused
C37_ShortPayloadRefusedSeen ==
    /\ codec_pc = "consumed"
    /\ Len(codec_data) = BookHeaderSize + LevelSize
    /\ codec_data[3] = 2 /\ codec_data[4] = 0
    /\ codec_out.e = "runtime_error"


\* ------------------------------------------------------------------------
\* C38: no OrderBookUpdate pushed to liquidity_queue or iceberg_queue has a
\* level of quantity <= 0: the removals on the wire (quantity 0) are dropped
\* when the depth update is parsed, so that neither consumer sees one.
\* ------------------------------------------------------------------------
PositiveLevels(levels) == \A i \in 1..Len(levels) : Quantity(levels[i]) > 0

C38_NoZeroQuantityPushed ==
    \A i \in 1..Len(h_pushes) :
        h_pushes[i].queue \in {"liquidity_queue", "iceberg_queue"} =>
            /\ PositiveLevels(h_pushes[i].item.bids)
            /\ PositiveLevels(h_pushes[i].item.asks)

\* a depth update with a bid has been pushed to both queues
C38_LevelPushedSeen ==
    /\ Len(liquidity_queue) = 1 /\ liquidity_queue[1].bids = << PriceLevel(1, 3) >>
    /\ iceberg_queue = liquidity_queue


\* ------------------------------------------------------------------------
\* C39: after LiquidityTracker::onOrderBookUpdate the stored bid and ask
\* quantities are exactly those of the first depth_levels_track levels of
\* that update on each side: a price absent from the update is forgotten, so
\* that when it reappears in a later update its whole quantity is counted as
\* an addition, and no cancel is credited for a level absent from the
\* current update.
\* ------------------------------------------------------------------------
\* the levels of an update that are tracked
Tracked(levels) == SubSeq(levels, 1, Min(Len(levels), depth_levels_track_))

\* stored holds the tracked levels and nothing else; of two levels at one
\* rounded price the later one
StoredIs(stored, levels) ==
    LET t == Tracked(levels)
    IN  /\ DOMAIN stored = { round_price(t[i].price) : i \in 1..Len(t) }
        /\ \A i \in 1..Len(t) :
              (\A k \in (i + 1)..Len(t) : round_price(t[k].price) # round_price(t[i].price))
                  => stored[round_price(t[i].price)] = t[i].volume

\* every price stored now and not before has a change of its whole quantity
WholeQuantityAdded(before, stored, changes, is_bid) ==
    \A p \in DOMAIN stored \ DOMAIN before :
        stored[p] > 0 =>
            \E i \in 1..Len(changes) :
                /\ changes[i].price = p /\ changes[i].is_bid = is_bid
                /\ changes[i].volume_delta = stored[p]

\* every cancel credited is for a level of the current update
CancelsOfStored(credits, stored, is_buy) ==
    \A i \in 1..Len(credits) :
        credits[i].is_buy = is_buy => credits[i].price \in DOMAIN stored

C39_StoredIsUpdate ==
    [][ \A ts \in DeepTimestamps : \A b \in DeepBidLists : \A a \in DeepAskLists :
          OnOrderBookUpdate(ts, b, a) =>
            /\ StoredIs(last_bids_volume_', b)
            /\ StoredIs(last_asks_volume_', a)
            /\ WholeQuantityAdded(last_bids_volume_, last_bids_volume_', h_changes', TRUE)
            /\ WholeQuantityAdded(last_asks_volume_, last_asks_volume_', h_changes', FALSE)
            /\ CancelsOfStored(h_credits', last_bids_volume_', TRUE)
            /\ CancelsOfStored(h_credits', last_asks_volume_', FALSE)
      ]_vars

\* a bid of 10 at 10.00, an update without bids, a bid of 7 at 10.00: both
\* quantities were added whole
C39_ReappearedSeen ==
    /\ h_updates = 3
    /\ h_prev_bids = EmptyMap
    /\ last_bids_volume_ = (LtBidPrice :> 7)
    /\ order_buy_.accum = 17 * LtBidPrice
    /\ h_credits = << >>

\* an update deeper than depth_levels_track_ has been stored without its
\* last level
C39_TruncatedSeen ==
    /\ Cardinality(DOMAIN last_bids_volume_) = depth_levels_track_
    /\ LtDeepBids[depth_levels_track_ + 1].price \notin DOMAIN last_bids_volume_


\* ------------------------------------------------------------------------
\* C40: for every snapshot S and allowed tick size t, installing S while the
\* tick size is already t yields the same bids and asks as installing S at
\* a tick size fine enough to keep all its prices distinct and then calling
\* set_tick_size(t): snapshot levels that round to the same price are
\* summed in both orders of operation.
\* ------------------------------------------------------------------------
\* the side installed at a tick size that keeps the prices of levels distinct
InstalledFine(levels) ==
    LET kept == { i \in 1..Len(levels) : levels[i][2] > 0 }
    IN  [p \in { levels[i][1] : i \in kept } |->
            levels[CHOOSE i \in kept : levels[i][1] = p][2]]

C40_InstallCommutesWithTick ==
    [][ \A t \in Threads :
          (pc[t] = "install" /\ pc'[t] = "print") =>
             /\ bids' = Reaggregate(InstalledFine(snap_msg[t].bids), tick_size)
             /\ asks' = Reaggregate(InstalledFine(snap_msg[t].asks), tick_size)
      ]_vars

\* a snapshot whose asks 10.012 and 10.008 round to 10.01 has been installed
\* at tick 0.01
C40_RoundedTogetherSeen ==
    /\ h_last_op = "snapshot"
    /\ tick_size = 10
    /\ DOMAIN asks = {10010}
    /\ DOMAIN bids = {10000, 9000}

====
